---- MODULE Spec2Model ----
(***************************************************************************)
(* A state-machine model of auditgh's scan orchestrator                    *)
(* (src/template_repos.py): the control channel (pause.flag, stop.flag,    *)
(* scan_state.json), the per-repository job process_repo with its fixed    *)
(* tool sequence, the tool wrappers, the worker pool of main, the          *)
(* repository lister get_all_repos, the Top 5 of get_top_vulnerabilities,  *)
(* the threat-intelligence loaders load_kev and load_epss, and the policy  *)
(* gate evaluate_policy; and of the Gitleaks scanner                       *)
(* (src/scan_gitleaks.py): its pool, the clone root of clone_repo and the  *)
(* list of repositories with secrets.                                      *)
(***************************************************************************)
EXTENDS Integers, Sequences, FiniteSets, TLC

VARIABLES
    \* ---- control directory (config.CONTROL_DIR)
    pause_flag,      \* pause.flag exists
    stop_flag,       \* stop.flag exists
    scan_state,      \* contents of scan_state.json: [status, last_repo]
    control_ops,     \* number of control commands / hotkeys issued so far
    \* ---- configuration set by main from the command line
    cfg,             \* [DOCKER_IMAGE, SEMGREP_TAINT_CONFIG, max_workers, ...,
                     \*  GITHUB_TOKEN (a token is set), repo (--repo, "" if none)]
    \* ---- the repository list handed to the pool and the jobs made of it
    jobs,            \* sequence of repository descriptors [name, files]
    pc,              \* per job: position in process_repo
    ip,              \* per job: index of the current instruction of Body
    inflight,        \* per job: behaviour of the tool subprocess now running
    results,         \* per job: tool -> value of the *_result variable
    invoked,         \* per job: the tool wrappers called so far, in order
    ck_ok,           \* per job: check_control returned since the last wrapper call
    could_not_run,   \* per job: tools that could not execute (missing binary, error)
    outcome,         \* per job: the terminal record it wrote
    summary,         \* per job: <repo>_summary.md was written
    future_exc,      \* per job: the exception its future holds
    \* ---- the shared checkout root (config.CLONE_DIR)
    root_exists,     \* the directory config.CLONE_DIR exists
    checkouts,       \* names of the repository subdirectories that exist in it
    cleanup_log,     \* repositories for which a failed cleanup was logged
    faults_left,     \* non-nominal subprocess / filesystem outcomes still to inject
    main_pc,         \* position of main
    exit_code,       \* exit status of the process (-1 while running)
    \* ---- get_all_repos
    l_pc, page, retry_count, api_path, tried_user_fallback, repos, requests_made,
    l_last,          \* the last response and what was done about it:
                     \* [status, sleep, reset, now]
    rate_waits,      \* 403 waits in a row on the current request
    \* ---- get_top_vulnerabilities
    agg_pc,              \* "idle", "call" (about to be called) or "returned"
    scan_results,        \* its argument: the findings of each source tool
    vulnerabilities,     \* the list it collects from the sources
    unique_vulns,        \* that list after deduplication
    top_vulnerabilities, \* what it returns
    \* ---- threat intelligence (load_kev, load_epss) and the policy gate
    kev_file,        \* .cache/kev.json: [present, val]
    epss_file,       \* .cache/epss.json: [present, val]
    kev_memo,        \* the lru_cache of load_kev: [set, val]
    epss_memo,       \* the lru_cache of load_epss: [set, val]
    g_pc,            \* per calling thread: position in evaluate_policy / the loaders
    g_kev,           \* per calling thread: what its last load_kev() returned
    g_epss,          \* per calling thread: what its last load_epss() returned
    g_fetch,         \* per calling thread: how its last loads were answered
    policy,          \* the policy document: [present, gates]
    tool_out,        \* the tool output files of the report directory
    evals,           \* what the calls of evaluate_policy made so far returned
    \* ---- scan_gitleaks: the pool of main and its clone root
    s_main,          \* position of scan_gitleaks' main: "idle", "pool", "done"
    s_pc,            \* per repository: position of its process_repo
    s_result,        \* per repository: how its clone and Gitleaks run ended
    report_file,     \* per repository: the text of <name>_gitleaks.md
    CLONE_DIR,       \* config.CLONE_DIR: None or the directory assigned last
    tmp_roots,       \* the directories made by tempfile.mkdtemp that exist
    secret_repos     \* the repositories main lists as having secrets

ctlVars  == <<pause_flag, stop_flag, scan_state, control_ops>>
jobVars  == <<pc, ip, inflight, results, invoked, ck_ok, could_not_run, outcome,
              summary, future_exc>>
fsVars   == <<root_exists, checkouts, cleanup_log>>
mainVars == <<cfg, jobs, faults_left, main_pc, exit_code>>
listVars == <<l_pc, page, retry_count, api_path, tried_user_fallback, repos,
              requests_made, l_last, rate_waits>>
aggVars == <<agg_pc, scan_results, vulnerabilities, unique_vulns,
             top_vulnerabilities>>
gateVars == <<kev_file, epss_file, kev_memo, epss_memo, g_pc, g_kev, g_epss,
              g_fetch, policy, tool_out, evals>>
leakVars == <<s_main, s_pc, s_result, report_file, CLONE_DIR, tmp_roots,
              secret_repos>>
vars == <<ctlVars, jobVars, fsVars, mainVars, listVars, aggVars, gateVars,
          leakVars>>

-----------------------------------------------------------------------------
(* Bounds of the model *)

\* control commands (touch/rm of a flag, hotkeys) issued during one run
MaxControlOps == 3
\* non-nominal outcomes (tool exits non-zero, binary missing, hang, rmtree
\* or clone failure) injected during one run of SpecJob
MaxFaults == 1
\* page requests get_all_repos may send in one run of SpecLister
MaxRequests == 5
\* rate-limit waits in a row on one request that a run of SpecLister follows
MaxWaits == 3

-----------------------------------------------------------------------------
(* The tools and the fixed sequence of process_repo *)

Tools == {"safety", "pip_audit", "npm_audit", "govulncheck", "bundle_audit",
          "dependency_check", "semgrep", "semgrep_taint", "syft_repo",
          "syft_image", "grype_repo", "grype_image", "checkov", "gitleaks",
          "bandit", "trivy_fs"}

\* files whose presence in the checkout decides whether a wrapper runs its tool
PrereqFiles == {"requirements.txt", "package.json", "go.mod", "Gemfile.lock",
                "pom.xml", "main.tf", "app.py"}

Ck(c)      == [op |-> "ck",   tool |-> "",  cond |-> c]
Tool(t, c) == [op |-> "tool", tool |-> t,   cond |-> c]

\* The body of process_repo's try block, statement by statement: a tool
\* wrapper call or a check_control call, with the condition that guards it.
Body ==
    << Tool("safety", "req"),            \* 722
       Tool("pip_audit", "req"),         \* 725
       Ck("always"),                     \* 746
       Tool("npm_audit", "always"),      \* 748
       Ck("always"),                     \* 751
       Tool("govulncheck", "always"),    \* 753
       Ck("always"),                     \* 756
       Tool("bundle_audit", "always"),   \* 758
       Ck("always"),                     \* 761
       Tool("dependency_check", "always"), \* 763
       Ck("always"),                     \* 766
       Tool("semgrep", "always"),        \* 768
       Ck("taint"),                      \* 771
       Tool("semgrep_taint", "taint"),   \* 772
       Ck("always"),                     \* 775
       Tool("syft_repo", "always"),      \* 777
       Tool("syft_image", "docker"),     \* 781
       Ck("always"),                     \* 784
       Tool("grype_repo", "always"),     \* 786
       Tool("grype_image", "docker"),    \* 789
       Ck("always"),                     \* 792
       Ck("always"),                     \* 794
       Tool("checkov", "always"),        \* 795
       Ck("always"),                     \* 798
       Tool("gitleaks", "always"),       \* 799
       Ck("always"),                     \* 802
       Tool("bandit", "always"),         \* 803
       Ck("always"),                     \* 806
       Tool("trivy_fs", "always"),       \* 807
       Ck("always") >>                   \* 810

BodyEnd == Len(Body) + 1

\* index of the first check_control call of the body
FirstCheckpoint == CHOOSE i \in 1..Len(Body) :
                      /\ Body[i].op = "ck"
                      /\ \A k \in 1..(i - 1) : Body[k].op # "ck"

-----------------------------------------------------------------------------
(* The tool wrappers *)

\* What the subprocess of a tool does: exits 0, exits 1 (findings), exits with
\* another code, exits 0 with output that does not parse, cannot be started
\* because the binary is not installed, or never returns.
Outcomes == {"ok", "findings", "error", "unparsable", "missing", "hang"}

\* the returncode of the CompletedProcess that subprocess.run hands back
Rc(o) == CASE o = "findings" -> "rc1"
           [] o = "error"    -> "rc2"
           [] OTHER          -> "rc0"

Ret(v) == [raises |-> FALSE, val |-> v]
Raise  == [raises |-> TRUE,  val |-> "unset"]

\* the file a wrapper (or process_repo, for the Python tools) looks for before
\* it runs its tool; "<dir>" is the checkout directory itself
Prereq(t) == CASE t = "npm_audit"        -> "package.json"
               [] t = "govulncheck"      -> "go.mod"
               [] t = "bundle_audit"     -> "Gemfile.lock"
               [] t = "dependency_check" -> "pom.xml"
               [] t = "semgrep"          -> "<dir>"
               [] t = "checkov"          -> "main.tf"
               [] t = "bandit"           -> "app.py"
               [] OTHER                  -> ""

\* the only subprocess.run call of the wrappers that passes timeout=
HasTimeout(t) == t = "dependency_check"

\* each wrapper, as a function of whether its prerequisite was found (pre) and
\* of what the subprocess did (o; "timeout" is a hang cut by subprocess.run)
run_safety_scan(o) ==
    IF o = "missing" THEN Ret("synthetic") ELSE Ret(Rc(o))

run_pip_audit_scan(o) ==
    IF o = "missing" THEN Ret("synthetic") ELSE Ret(Rc(o))

run_npm_audit(pre, o) ==
    IF ~pre THEN Ret("None")
    ELSE IF o = "missing" THEN Ret("None")
    ELSE Ret(Rc(o))

\* the finally clause reads the undefined name temp_dir: once past the go.mod
\* test every path through the wrapper ends in NameError
run_govulncheck(pre, o) ==
    IF ~pre THEN Ret("None") ELSE Raise

run_bundle_audit(pre, o) ==
    IF ~pre THEN Ret("None")
    ELSE IF o = "missing" THEN Ret("None")
    ELSE Ret(Rc(o))

run_dependency_check(pre, o) ==
    IF ~pre THEN Ret("None")
    ELSE IF o \in {"missing", "timeout"} THEN Ret("None")
    ELSE Ret(Rc(o))

run_semgrep_scan(pre, o) ==
    IF ~pre THEN Ret("synthetic")
    ELSE IF o = "missing" THEN Ret("synthetic")
    ELSE Ret(Rc(o))

\* no try/except around subprocess.run
run_semgrep_taint(o) ==
    IF o = "missing" THEN Raise ELSE Ret(Rc(o))

run_syft(o) ==
    IF o = "missing" THEN Ret("synthetic") ELSE Ret(Rc(o))

run_grype(o) ==
    IF o = "missing" THEN Ret("synthetic") ELSE Ret(Rc(o))

run_checkov(pre, o) ==
    IF ~pre THEN Ret("None")
    ELSE IF o = "missing" THEN Ret("synthetic")
    ELSE Ret(Rc(o))

run_gitleaks(o) ==
    IF o = "missing" THEN Ret("synthetic") ELSE Ret(Rc(o))

run_bandit(pre, o) ==
    IF ~pre THEN Ret("None")
    ELSE IF o = "missing" THEN Ret("synthetic")
    ELSE Ret(Rc(o))

run_trivy_fs(o) ==
    IF o = "missing" THEN Ret("synthetic") ELSE Ret(Rc(o))

Wrapper(t, pre, o) ==
    CASE t = "safety"           -> run_safety_scan(o)
      [] t = "pip_audit"        -> run_pip_audit_scan(o)
      [] t = "npm_audit"        -> run_npm_audit(pre, o)
      [] t = "govulncheck"      -> run_govulncheck(pre, o)
      [] t = "bundle_audit"     -> run_bundle_audit(pre, o)
      [] t = "dependency_check" -> run_dependency_check(pre, o)
      [] t = "semgrep"          -> run_semgrep_scan(pre, o)
      [] t = "semgrep_taint"    -> run_semgrep_taint(o)
      [] t \in {"syft_repo", "syft_image"}   -> run_syft(o)
      [] t \in {"grype_repo", "grype_image"} -> run_grype(o)
      [] t = "checkov"          -> run_checkov(pre, o)
      [] t = "gitleaks"         -> run_gitleaks(o)
      [] t = "bandit"           -> run_bandit(pre, o)
      [] t = "trivy_fs"         -> run_trivy_fs(o)

\* the status column of the summary table
get_scan_status(result) ==
    CASE result \in {"unset", "None"}   -> "Not run"
      [] result = "rc0"                 -> "Success"
      [] result \in {"rc1", "synthetic"} -> "Issues found"
      [] OTHER                          -> "Error"

\* requirements.txt is the only source extract_requirements can return: the
\* pyproject.toml and setup.py branches read the undefined name CLONE_DIR
\* inside their try blocks and fall through to (None, False, None)
extract_requirements(files) ==
    IF "requirements.txt" \in files THEN "requirements.txt" ELSE ""

-----------------------------------------------------------------------------
(* Jobs *)

JobIds == DOMAIN pc

RepoName(j) == jobs[j].name

Max(a, b) == IF a >= b THEN a ELSE b

\* a pool that grows with the number of submitted jobs
PoolSize_PerJob == Max(1, Len(jobs))

\* main: max_workers = max(1, int(args.max_workers))
PoolSize == Max(1, cfg.max_workers)

Active == {k \in JobIds : pc[k] \notin {"queued", "ended"}}

CondHolds(j, c) ==
    \/ c = "always"
    \/ c = "req"    /\ extract_requirements(jobs[j].files) # ""
    \/ c = "taint"  /\ cfg.SEMGREP_TAINT_CONFIG
    \/ c = "docker" /\ cfg.DOCKER_IMAGE

\* the next statement of the body, from i on, whose guard holds for job j
RECURSIVE NextIp(_, _)
NextIp(j, i) ==
    IF i >= BodyEnd THEN BodyEnd
    ELSE IF CondHolds(j, Body[i].cond) THEN i
    ELSE NextIp(j, i + 1)

\* whether the wrapper of t finds what it looks for in the checkout of job j
HasPrereq(j, t) ==
    CASE Prereq(t) = ""      -> TRUE
      [] Prereq(t) = "<dir>" -> RepoName(j) \in checkouts
      [] OTHER               -> /\ RepoName(j) \in checkouts
                                /\ Prereq(t) \in jobs[j].files

\* a subprocess is started unless the wrapper returns early or the binary is
\* not there to start
Launches(pre, o) == pre /\ o # "missing"

\* what the tool may do when job j calls its wrapper: anything while the
\* fault budget lasts; a tool pointed at a checkout that is gone fails
OutcomeChoices(j, t) ==
    IF ~HasPrereq(j, t) THEN {"ok"}
    ELSE IF t \notin {"syft_image", "grype_image"} /\ RepoName(j) \notin checkouts
         THEN {"error"}
    ELSE IF faults_left > 0 THEN Outcomes
    ELSE {"ok"}

Cost(j, t, o) ==
    IF o = "ok" \/ (o = "error" /\ RepoName(j) \notin checkouts) THEN 0 ELSE 1

write_scan_state(status, last_repo) ==
    scan_state' = [status |-> status, last_repo |-> last_repo]

\* the variables process_repo sets to None before its first checkpoint
PreInitialised == {"semgrep", "syft_repo", "syft_image", "grype_repo",
                   "grype_image", "checkov", "gitleaks", "semgrep_taint",
                   "bandit", "trivy_fs"}

-----------------------------------------------------------------------------
(* main: the worker pool *)

\* a worker of the ThreadPoolExecutor takes the next queued job
JobStart(j) ==
    /\ main_pc = "pool"
    /\ pc[j] = "queued"
    /\ \A k \in JobIds : k < j => pc[k] # "queued"
    /\ Cardinality(Active) < PoolSize
    /\ pc' = [pc EXCEPT ![j] = "clone"]
    /\ UNCHANGED <<ip, inflight, results, invoked, ck_ok, could_not_run, outcome,
                   summary, future_exc>>
    /\ UNCHANGED <<ctlVars, fsVars, mainVars, listVars, aggVars,
                   gateVars, leakVars>>

\* process_repo up to the try block: clone_repo, the isdir test, and the
\* statements before the first tool
clone_repo(j) ==
    /\ pc[j] = "clone"
    /\ \E ok \in {TRUE} \cup (IF faults_left > 0 THEN {FALSE} ELSE {}) :
         /\ root_exists' = TRUE
         /\ faults_left' = IF ok THEN faults_left ELSE faults_left - 1
         /\ IF ok
            THEN /\ checkouts' = checkouts \cup {RepoName(j)}
                 /\ results' = [results EXCEPT ![j] =
                       [t \in Tools |->
                          IF t \in PreInitialised
                             \/ (t \in {"safety", "pip_audit"}
                                 /\ extract_requirements(jobs[j].files) = "")
                          THEN "None" ELSE "unset"]]
                 /\ ip' = [ip EXCEPT ![j] = NextIp(j, 1)]
                 /\ pc' = [pc EXCEPT ![j] = "body"]
                 /\ UNCHANGED outcome
            ELSE /\ checkouts' = checkouts \ {RepoName(j)}
                 /\ outcome' = [outcome EXCEPT ![j] = "Failed"]
                 /\ pc' = [pc EXCEPT ![j] = "ended"]
                 /\ UNCHANGED <<results, ip>>
    /\ UNCHANGED <<inflight, invoked, ck_ok, could_not_run, summary, future_exc>>
    /\ UNCHANGED <<ctlVars, cleanup_log, cfg, jobs, main_pc, exit_code, listVars, aggVars,
                   gateVars, leakVars>>

-----------------------------------------------------------------------------
(* check_control *)

AtCheckpoint(j) ==
    /\ pc[j] = "body"
    /\ ip[j] < BodyEnd
    /\ Body[ip[j]].op = "ck"

\* write state "stopped" and raise SystemExit: process_repo's except Exception
\* does not catch it, its finally clause runs and the future holds it
StopRaised(j) ==
    /\ write_scan_state("stopped", RepoName(j))
    /\ outcome' = [outcome EXCEPT ![j] = "Stopped"]
    /\ future_exc' = [future_exc EXCEPT ![j] = "SystemExit"]
    /\ pc' = [pc EXCEPT ![j] = "finally"]
    /\ UNCHANGED <<ip, ck_ok>>

\* the test of stop.flag on entry
check_control_stop(j) ==
    /\ AtCheckpoint(j)
    /\ IF stop_flag
       THEN StopRaised(j)
       ELSE /\ pc' = [pc EXCEPT ![j] = "ck_pause"]
            /\ UNCHANGED <<scan_state, outcome, future_exc, ip, ck_ok>>
    /\ UNCHANGED <<inflight, results, invoked, could_not_run, summary>>
    /\ UNCHANGED <<pause_flag, stop_flag, control_ops, fsVars, mainVars, listVars, aggVars,
                   gateVars, leakVars>>

\* the while test of pause.flag: write "paused" and sleep, or write "running"
\* and return
check_control_pause(j) ==
    /\ pc[j] = "ck_pause"
    /\ IF pause_flag
       THEN /\ write_scan_state("paused", RepoName(j))
            /\ pc' = [pc EXCEPT ![j] = "ck_sleep"]
            /\ UNCHANGED <<ip, ck_ok>>
       ELSE /\ write_scan_state("running", RepoName(j))
            /\ ck_ok' = [ck_ok EXCEPT ![j] = TRUE]
            /\ ip' = [ip EXCEPT ![j] = NextIp(j, ip[j] + 1)]
            /\ pc' = [pc EXCEPT ![j] = "body"]
    /\ UNCHANGED <<inflight, results, invoked, could_not_run, outcome, summary,
                   future_exc>>
    /\ UNCHANGED <<pause_flag, stop_flag, control_ops, fsVars, mainVars, listVars, aggVars,
                   gateVars, leakVars>>

\* a wake that re-tests pause.flag before stop.flag
check_control_wake_PauseFirst(j) ==
    /\ pc[j] = "ck_sleep"
    /\ IF ~pause_flag
       THEN /\ write_scan_state("running", RepoName(j))
            /\ ck_ok' = [ck_ok EXCEPT ![j] = TRUE]
            /\ ip' = [ip EXCEPT ![j] = NextIp(j, ip[j] + 1)]
            /\ pc' = [pc EXCEPT ![j] = "body"]
            /\ UNCHANGED <<outcome, future_exc>>
       ELSE IF stop_flag
       THEN StopRaised(j)
       ELSE /\ pc' = [pc EXCEPT ![j] = "ck_pause"]
            /\ UNCHANGED <<scan_state, outcome, future_exc, ip, ck_ok>>
    /\ UNCHANGED <<inflight, results, invoked, could_not_run, summary>>
    /\ UNCHANGED <<pause_flag, stop_flag, control_ops, fsVars, mainVars, listVars, aggVars,
                   gateVars, leakVars>>

\* a wake that goes round the loop body again without the while test of
\* pause.flag
check_control_wake_NoRetest(j) ==
    /\ pc[j] = "ck_sleep"
    /\ IF stop_flag
       THEN StopRaised(j)
       ELSE /\ write_scan_state("paused", RepoName(j))
            /\ UNCHANGED <<pc, outcome, future_exc, ip, ck_ok>>
    /\ UNCHANGED <<inflight, results, invoked, could_not_run, summary>>
    /\ UNCHANGED <<pause_flag, stop_flag, control_ops, fsVars, mainVars, listVars, aggVars,
                   gateVars, leakVars>>

\* the end of time.sleep(10) and the test of stop.flag that follows it
check_control_wake(j) ==
    /\ pc[j] = "ck_sleep"
    /\ IF stop_flag
       THEN StopRaised(j)
       ELSE /\ pc' = [pc EXCEPT ![j] = "ck_pause"]
            /\ UNCHANGED <<scan_state, outcome, future_exc, ip, ck_ok>>
    /\ UNCHANGED <<inflight, results, invoked, could_not_run, summary>>
    /\ UNCHANGED <<pause_flag, stop_flag, control_ops, fsVars, mainVars, listVars, aggVars,
                   gateVars, leakVars>>

-----------------------------------------------------------------------------
(* process_repo: the tool calls *)

\* the wrapper of tool t has returned or raised in job j
Finish(j, t, r) ==
    IF r.raises
    THEN \* except Exception: log_error(...)
         /\ outcome' = [outcome EXCEPT ![j] = "Failed"]
         /\ pc' = [pc EXCEPT ![j] = "finally"]
         /\ UNCHANGED <<results, ip>>
    ELSE /\ results' = [results EXCEPT ![j][t] = r.val]
         /\ ip' = [ip EXCEPT ![j] = NextIp(j, ip[j] + 1)]
         /\ pc' = [pc EXCEPT ![j] = "body"]
         /\ UNCHANGED outcome

\* a call of a tool wrapper, up to the start of its subprocess
ToolCall(j) ==
    /\ pc[j] = "body"
    /\ ip[j] < BodyEnd
    /\ Body[ip[j]].op = "tool"
    /\ LET t   == Body[ip[j]].tool
           pre == HasPrereq(j, t)
       IN \E o \in OutcomeChoices(j, t) :
            /\ invoked' = [invoked EXCEPT ![j] = Append(@, t)]
            /\ ck_ok' = [ck_ok EXCEPT ![j] = FALSE]
            /\ faults_left' = faults_left - Cost(j, t, o)
            /\ could_not_run' = [could_not_run EXCEPT ![j] =
                                   IF pre /\ o = "missing" THEN @ \cup {t} ELSE @]
            /\ IF Launches(pre, o)
               THEN /\ inflight' = [inflight EXCEPT ![j] = o]
                    /\ pc' = [pc EXCEPT ![j] = "tool_run"]
                    /\ UNCHANGED <<results, ip, outcome>>
               ELSE /\ Finish(j, t, Wrapper(t, pre, o))
                    /\ UNCHANGED inflight
    /\ UNCHANGED <<summary, future_exc>>
    /\ UNCHANGED <<ctlVars, fsVars, cfg, jobs, main_pc, exit_code, listVars, aggVars,
                   gateVars, leakVars>>

\* the subprocess ends (or subprocess.run cuts it at its timeout) and the
\* wrapper runs to its return
ToolReturn(j) ==
    /\ pc[j] = "tool_run"
    /\ LET t == Body[ip[j]].tool
           o == inflight[j]
       IN /\ o = "hang" => HasTimeout(t)
          /\ Finish(j, t, Wrapper(t, TRUE, IF o = "hang" THEN "timeout" ELSE o))
          /\ could_not_run' = [could_not_run EXCEPT ![j] =
                                 IF o = "hang" THEN @ \cup {t} ELSE @]
    /\ inflight' = [inflight EXCEPT ![j] = "none"]
    /\ UNCHANGED <<invoked, ck_ok, summary, future_exc>>
    /\ UNCHANGED <<ctlVars, fsVars, mainVars, listVars, aggVars,
                   gateVars, leakVars>>

\* generate_summary_report: the summary file is written, and the finally
\* clause removes config.CLONE_DIR, the checkout root shared by all jobs
generate_summary_report(j) ==
    /\ pc[j] = "body"
    /\ ip[j] = BodyEnd
    /\ summary' = [summary EXCEPT ![j] = TRUE]
    /\ root_exists' = FALSE
    /\ checkouts' = {}
    /\ pc' = [pc EXCEPT ![j] = "write_done"]
    /\ UNCHANGED <<ip, inflight, results, invoked, ck_ok, could_not_run, outcome,
                   future_exc>>
    /\ UNCHANGED <<ctlVars, cleanup_log, mainVars, listVars, aggVars,
                   gateVars, leakVars>>

\* write_scan_state("done", ...) after the summary
write_done(j) ==
    /\ pc[j] = "write_done"
    /\ write_scan_state("done", RepoName(j))
    /\ outcome' = [outcome EXCEPT ![j] = "Done"]
    /\ pc' = [pc EXCEPT ![j] = "finally"]
    /\ UNCHANGED <<ip, inflight, results, invoked, ck_ok, could_not_run, summary,
                   future_exc>>
    /\ UNCHANGED <<pause_flag, stop_flag, control_ops, fsVars, mainVars, listVars, aggVars,
                   gateVars, leakVars>>

\* the finally clause of process_repo: shutil.rmtree(repo_path,
\* ignore_errors=True) swallows a failure, so the except branch that would
\* log it is never entered
process_repo_finally(j) ==
    /\ pc[j] = "finally"
    /\ \E ok \in {TRUE} \cup (IF faults_left > 0 /\ RepoName(j) \in checkouts
                              THEN {FALSE} ELSE {}) :
         /\ checkouts' = IF ok THEN checkouts \ {RepoName(j)} ELSE checkouts
         /\ faults_left' = IF ok THEN faults_left ELSE faults_left - 1
    /\ pc' = [pc EXCEPT ![j] = "ended"]
    /\ UNCHANGED <<root_exists, cleanup_log>>
    /\ UNCHANGED <<ip, inflight, results, invoked, ck_ok, could_not_run, outcome,
                   summary, future_exc>>
    /\ UNCHANGED <<ctlVars, cfg, jobs, main_pc, exit_code, listVars, aggVars,
                   gateVars, leakVars>>

\* main after the with block: a SystemExit held by a future is re-raised by
\* future.result() and passes except Exception; the finally clause removes
\* config.CLONE_DIR
main_finish ==
    /\ main_pc = "pool"
    /\ \A j \in JobIds : pc[j] = "ended"
    /\ root_exists' = FALSE
    /\ checkouts' = {}
    /\ exit_code' = IF \E j \in JobIds : future_exc[j] = "SystemExit" THEN 1 ELSE 0
    /\ main_pc' = "exited"
    /\ UNCHANGED <<cleanup_log, cfg, jobs, faults_left>>
    /\ UNCHANGED <<ctlVars, jobVars, listVars, aggVars,
                   gateVars, leakVars>>

-----------------------------------------------------------------------------
(* The control surface: flag files and the hotkey listener *)

\* a listener whose 's' and 'q' toggle stop.flag the way 'p' toggles
\* pause.flag
HotkeyListener_StopToggles(ch) ==
    /\ main_pc = "pool"
    /\ control_ops < MaxControlOps
    /\ control_ops' = control_ops + 1
    /\ CASE ch = "p"          -> pause_flag' = ~pause_flag /\ UNCHANGED stop_flag
         [] ch \in {"s", "q"} -> stop_flag' = ~stop_flag /\ UNCHANGED pause_flag
         [] OTHER             -> UNCHANGED <<pause_flag, stop_flag>>
    /\ UNCHANGED <<scan_state, jobVars, fsVars, mainVars, listVars, aggVars,
                   gateVars, leakVars>>

\* HotkeyListener.run: 'p' toggles pause.flag, 's' and 'q' create stop.flag,
\* any other key is ignored
HotkeyListener(ch) ==
    /\ main_pc = "pool"
    /\ control_ops < MaxControlOps
    /\ control_ops' = control_ops + 1
    /\ CASE ch = "p"          -> pause_flag' = ~pause_flag /\ UNCHANGED stop_flag
         [] ch \in {"s", "q"} -> stop_flag' = TRUE /\ UNCHANGED pause_flag
         [] OTHER             -> UNCHANGED <<pause_flag, stop_flag>>
    /\ UNCHANGED <<scan_state, jobVars, fsVars, mainVars, listVars, aggVars,
                   gateVars, leakVars>>

\* the commands print_control_instructions gives the operator
ControlCommand(cmd) ==
    /\ main_pc = "pool"
    /\ control_ops < MaxControlOps
    /\ control_ops' = control_ops + 1
    /\ CASE cmd = "touch pause" -> pause_flag' = TRUE  /\ UNCHANGED stop_flag
         [] cmd = "rm pause"    -> pause_flag' = FALSE /\ UNCHANGED stop_flag
         [] cmd = "touch stop"  -> stop_flag' = TRUE   /\ UNCHANGED pause_flag
    /\ UNCHANGED <<scan_state, jobVars, fsVars, mainVars, listVars, aggVars,
                   gateVars, leakVars>>

-----------------------------------------------------------------------------
(* get_all_repos: the repository lister *)

per_page == 100
max_retries == 3
retry_delay == 5

\* The account's repositories in upstream order (full_name ascending): the
\* i-th has name i. Most are forks, one in a hundred is archived, so that a
\* listing of several full pages leaves a short list after filtering; the
\* whole second page is forks, so that a full page may leave nothing.
UpstreamRepo(i) == [name     |-> i,
                    fork     |-> \/ (i % per_page) \notin {0, 1, 2}
                                 \/ (i > per_page /\ i <= 2 * per_page),
                    archived |-> (i % per_page) = 2]

\* sizes of the account's listing that a run may meet
ListingSizes == {0, 3, per_page, per_page + 1, 2 * per_page}

\* page p of a listing of n repositories
PageOf(n, p) ==
    LET first == (p - 1) * per_page + 1
        last  == IF p * per_page <= n THEN p * per_page ELSE n
    IN  [k \in 1..(IF last >= first THEN last - first + 1 ELSE 0) |->
            UpstreamRepo(first + k - 1)]

\* process_repositories: the entries of a page that pass the fork/archived
\* filter, in page order
process_repositories(page_repos, include_forks, include_archived) ==
    LET Kept(repo) == ~( (~include_forks /\ repo.fork)
                         \/ (~include_archived /\ repo.archived) )
    IN  SelectSeq(page_repos, Kept)

\* a test of the page length that counts what the filter kept
ShortPage_AfterFilter(page_repos) ==
    Len(process_repositories(page_repos, cfg.include_forks,
                             cfg.include_archived)) < per_page

\* the test that ends pagination after a page was processed
ShortPage(page_repos) == Len(page_repos) < per_page

\* what the X-RateLimit-Reset header of a 403 may hold (NoHeader: the header
\* is absent) and what int(time.time()) may be when it is read
NoHeader == -1
ResetValues == {NoHeader, 0, 3, 10}
NowValues == {3, 7}

\* what one session.get may bring back: a page of the listing, a 403 with or
\* without a reset time, a 404, another 4xx, or a RequestException (network
\* failure, or 5xx/429 after the adapter's own retries)
Responses(n, p) ==
    {[kind |-> "http", status |-> 200, body |-> PageOf(n, p), reset |-> NoHeader]}
    \cup {[kind |-> "http", status |-> st, body |-> <<>>, reset |-> NoHeader] :
             st \in {401, 404, 422}}
    \cup {[kind |-> "http", status |-> 403, body |-> <<>>, reset |-> r] :
             r \in ResetValues}
    \cup {[kind |-> "exception", status |-> 0, body |-> <<>>, reset |-> NoHeader]}

\* handle_rate_limit without the floor at zero: a reset time already past
\* shortens the wait below the buffer
handle_rate_limit_NoFloor(reset, now) ==
    IF reset # NoHeader THEN (reset - now) + 5 ELSE 60

\* handle_rate_limit: the seconds it sleeps
handle_rate_limit(reset, now) ==
    IF reset # NoHeader THEN Max(0, reset - now) + 5 ELSE 60

\* the exponential backoff before attempt k + 1
BackoffWait(k) == retry_delay * 2 ^ (k - 1)

\* what is recorded of a response that was handled by sleeping s seconds
Handled(resp, s, now) ==
    [status |-> resp.status, sleep |-> s, reset |-> resp.reset, now |-> now]

\* the handler of a failed attempt giving up one attempt late
RetryOrGiveUp_OneMore(resp) ==
    /\ retry_count' = retry_count + 1
    /\ IF retry_count + 1 > max_retries
       THEN l_pc' = "returned" /\ l_last' = [status |-> resp.status, sleep |-> 0,
                                             reset |-> resp.reset, now |-> 0]
       ELSE l_pc' = "request"
            /\ l_last' = [status |-> resp.status,
                          sleep |-> retry_delay * 2 ^ retry_count,
                          reset |-> resp.reset, now |-> 0]
    /\ UNCHANGED <<page, api_path, tried_user_fallback, repos>>

\* the handler of a failed attempt: count it, give up at max_retries,
\* otherwise sleep the backoff
RetryOrGiveUp(resp) ==
    /\ retry_count' = retry_count + 1
    /\ IF retry_count + 1 >= max_retries
       THEN l_pc' = "returned" /\ l_last' = Handled(resp, 0, 0)
       ELSE l_pc' = "request"
            /\ l_last' = Handled(resp, BackoffWait(retry_count + 1), 0)
    /\ UNCHANGED <<page, api_path, tried_user_fallback, repos>>

\* one pass through the inner while loop of get_all_repos
get_all_repos(n) ==
    /\ l_pc = "request"
    /\ requests_made < MaxRequests
    /\ requests_made' = requests_made + 1
    /\ \E resp \in Responses(n, page) :
         /\ resp.status = 403 => rate_waits < MaxWaits
         /\ rate_waits' = IF resp.status = 403 THEN rate_waits + 1 ELSE 0
         /\ IF resp.kind = "exception"
            THEN RetryOrGiveUp(resp)
            ELSE IF resp.status = 403
            THEN \* handle_rate_limit, then continue: retry_count is not touched
                 /\ \E now \in NowValues :
                      l_last' = Handled(resp, handle_rate_limit(resp.reset, now), now)
                 /\ UNCHANGED <<l_pc, page, retry_count, api_path,
                                tried_user_fallback, repos>>
            ELSE IF resp.status = 404 /\ ~tried_user_fallback /\ api_path = "orgs"
            THEN /\ api_path' = "users"
                 /\ tried_user_fallback' = TRUE
                 /\ retry_count' = 0
                 /\ page' = 1
                 /\ l_last' = Handled(resp, 1, 0)
                 /\ UNCHANGED <<l_pc, repos>>
            ELSE IF resp.status >= 400
            THEN \* raise_for_status -> except HTTPError
                 IF resp.status = 404 /\ tried_user_fallback
                 THEN /\ l_pc' = "returned"
                      /\ l_last' = Handled(resp, 0, 0)
                      /\ UNCHANGED <<page, retry_count, api_path,
                                     tried_user_fallback, repos>>
                 ELSE RetryOrGiveUp(resp)
            ELSE IF resp.body = <<>>
            THEN /\ l_pc' = "returned"
                 /\ l_last' = Handled(resp, 0, 0)
                 /\ UNCHANGED <<page, retry_count, api_path, tried_user_fallback,
                                repos>>
            ELSE /\ repos' = repos \o process_repositories(resp.body,
                                        cfg.include_forks, cfg.include_archived)
                 /\ l_last' = Handled(resp, 0, 0)
                 /\ IF ShortPage(resp.body)
                    THEN l_pc' = "returned" /\ UNCHANGED <<page, retry_count>>
                    ELSE /\ page' = page + 1
                         /\ retry_count' = 0
                         /\ UNCHANGED l_pc
                 /\ UNCHANGED <<api_path, tried_user_fallback>>
    /\ UNCHANGED <<ctlVars, jobVars, fsVars, mainVars, aggVars,
                   gateVars, leakVars>>

\* main up to the listing: without a token sys.exit(1); when the temporary
\* directory cannot be made sys.exit(1); with --repo, get_single_repo (200,
\* 404, or a request that failed: None for the last two) and either a return
\* or process_repo on the one repository; otherwise get_all_repos
main_start ==
    /\ main_pc = "start"
    /\ IF ~cfg.GITHUB_TOKEN
       THEN /\ main_pc' = "exited"
            /\ exit_code' = 1
            /\ UNCHANGED <<l_pc, l_last, root_exists, jobs, jobVars>>
       ELSE \E tmp_ok \in BOOLEAN, status \in {200, 404, 0} :
              IF ~tmp_ok
              THEN /\ main_pc' = "exited"
                   /\ exit_code' = 1
                   /\ root_exists' = FALSE
                   /\ UNCHANGED <<l_pc, l_last, jobs, jobVars>>
              ELSE IF cfg.repo = ""
              THEN /\ main_pc' = "listing"
                   /\ l_pc' = "request"
                   /\ UNCHANGED <<exit_code, l_last, root_exists, jobs, jobVars>>
              ELSE IF status # 200
              THEN /\ main_pc' = "exited"
                   /\ exit_code' = 0
                   /\ l_last' = [l_last EXCEPT !.status = status]
                   /\ UNCHANGED <<l_pc, root_exists, jobs, jobVars>>
              ELSE /\ main_pc' = "pool"
                   /\ l_last' = [l_last EXCEPT !.status = status]
                   /\ jobs' = <<[name |-> 1, files |-> {}]>>
                   /\ pc' = <<"queued">>
                   /\ ip' = <<1>>
                   /\ inflight' = <<"none">>
                   /\ results' = <<[t \in Tools |-> "unset"]>>
                   /\ invoked' = << <<>> >>
                   /\ ck_ok' = <<FALSE>>
                   /\ could_not_run' = <<{}>>
                   /\ outcome' = <<"none">>
                   /\ summary' = <<FALSE>>
                   /\ future_exc' = <<"none">>
                   /\ UNCHANGED <<exit_code, l_pc, root_exists>>
    /\ UNCHANGED <<page, retry_count, api_path, tried_user_fallback, repos,
                   requests_made, rate_waits>>
    /\ UNCHANGED <<ctlVars, checkouts, cleanup_log, cfg, faults_left, aggVars,
                   gateVars, leakVars>>

\* main after get_all_repos: an empty list ends the run, any other list is
\* submitted to the pool, one process_repo job per entry
main_submit ==
    /\ l_pc = "returned"
    /\ l_pc' = "idle"
    /\ IF repos = <<>>
       THEN /\ main_pc' = "exited"
            /\ exit_code' = 0
            /\ UNCHANGED <<jobs, jobVars>>
       ELSE /\ main_pc' = "pool"
            /\ jobs' = [i \in 1..Len(repos) |-> [name |-> repos[i].name, files |-> {}]]
            /\ pc' = [i \in 1..Len(repos) |-> "queued"]
            /\ ip' = [i \in 1..Len(repos) |-> 1]
            /\ inflight' = [i \in 1..Len(repos) |-> "none"]
            /\ results' = [i \in 1..Len(repos) |-> [t \in Tools |-> "unset"]]
            /\ invoked' = [i \in 1..Len(repos) |-> <<>>]
            /\ ck_ok' = [i \in 1..Len(repos) |-> FALSE]
            /\ could_not_run' = [i \in 1..Len(repos) |-> {}]
            /\ outcome' = [i \in 1..Len(repos) |-> "none"]
            /\ summary' = [i \in 1..Len(repos) |-> FALSE]
            /\ future_exc' = [i \in 1..Len(repos) |-> "none"]
            /\ UNCHANGED exit_code
    /\ UNCHANGED <<page, retry_count, api_path, tried_user_fallback, repos,
                   requests_made, l_last, rate_waits>>
    /\ UNCHANGED <<ctlVars, fsVars, cfg, faults_left, aggVars,
                   gateVars, leakVars>>

-----------------------------------------------------------------------------
(* get_top_vulnerabilities: the Top 5 of the summary report *)

\* str.lower() on the strings that occur in the findings of the model
Lower(str) ==
    CASE str = "Critical"   -> "critical"
      [] str = "High"       -> "high"
      [] str = "HIGH"       -> "high"
      [] str = "CRITICAL"   -> "critical"
      [] str = "Medium"     -> "medium"
      [] str = "MEDIUM"     -> "medium"
      [] str = "LOW"        -> "low"
      [] str = "UNKNOWN"    -> "unknown"
      [] str = "Low"        -> "low"
      [] str = "Negligible" -> "negligible"
      [] str = "Unknown"    -> "unknown"
      [] str = "None"       -> "none"
      [] str = "Lodash"     -> "lodash"
      [] str = "Python"     -> "python"
      [] str = "Node"       -> "node"
      [] str = "Trivy"      -> "trivy"
      [] str = "Dependency" -> "dependency"
      [] OTHER              -> str

\* x or default, for a string x ("" stands for a missing or empty value)
Or(x, default) == IF x = "" THEN default ELSE x

Min(a, b) == IF a <= b THEN a ELSE b

\* list[:n]
Take(list, n) == SubSeq(list, 1, Min(n, Len(list)))

\* A finding as a tool reports it:
\* [name, severity, affected, fixed, kev, epss], the last two being what the
\* threat-intel maps hold for its CVE (epss in percent).
Raw(name, severity, affected, fixed, kev, epss) ==
    [name |-> name, severity |-> severity, affected |-> affected,
     fixed |-> fixed, kev |-> kev, epss |-> epss]

\* the entry appended to vulnerabilities for a Safety finding; it has no kev
\* or epss key, which _rank reads as not known-exploited and 0.0
FromSafety(r) ==
    [type |-> "Python", name |-> r.name, severity |-> Or(r.severity, "unknown"),
     affected_versions |-> r.affected, fixed_in |-> r.fixed,
     kev |-> FALSE, epss |-> 0]

FromNpm(r) ==
    [type |-> "Node", name |-> r.name, severity |-> Or(r.severity, "unknown"),
     affected_versions |-> r.affected, fixed_in |-> r.fixed,
     kev |-> FALSE, epss |-> 0]

FromTrivy(r) ==
    [type |-> "Trivy", name |-> Or(r.name, "unknown"),
     severity |-> Lower(Or(r.severity, "unknown")),
     affected_versions |-> r.affected, fixed_in |-> r.fixed,
     kev |-> r.kev, epss |-> r.epss]

FromGrype(r) ==
    [type |-> "Dependency", name |-> Or(r.name, "Unknown"),
     severity |-> Lower(Or(r.severity, "Unknown")),
     affected_versions |-> Or(r.affected, "Unknown"),
     fixed_in |-> Or(r.fixed, "None"),
     kev |-> r.kev, epss |-> r.epss]

\* the four source loops: the first 10 Safety findings, the first 10 npm
\* advisories, every Trivy and every Grype finding, in this order
Collect(sr) ==
    LET safety == Take(sr.safety, 10)
        npm    == Take(sr.npm_audit, 10)
    IN  [i \in 1..Len(safety) |-> FromSafety(safety[i])]
        \o [i \in 1..Len(npm) |-> FromNpm(npm[i])]
        \o [i \in 1..Len(sr.trivy_fs) |-> FromTrivy(sr.trivy_fs[i])]
        \o [i \in 1..Len(sr.grype) |-> FromGrype(sr.grype[i])]

\* a deduplication key that compares the fields as they are spelled
Key_CaseSensitive(v) == <<v.type, v.name, v.affected_versions, v.severity,
                          v.fixed_in>>

\* the deduplication key of an entry
Key(v) == <<Lower(v.type), Lower(v.name), Lower(v.affected_versions),
            Lower(v.severity), Lower(v.fixed_in)>>

\* the deduplication loop from entry i on, with the keys seen so far
RECURSIVE DedupFrom(_, _, _)
DedupFrom(list, i, seen) ==
    IF i > Len(list) THEN <<>>
    ELSE IF Key(list[i]) \in seen THEN DedupFrom(list, i + 1, seen)
    ELSE <<list[i]>> \o DedupFrom(list, i + 1, seen \cup {Key(list[i])})

Dedup(list) == DedupFrom(list, 1, {})

\* severity_order.get(severity, 5)
severity_order(sev) ==
    CASE sev = "critical" -> 0
      [] sev = "high"     -> 1
      [] sev = "moderate" -> 2
      [] sev = "medium"   -> 2
      [] sev = "low"      -> 3
      [] sev = "unknown"  -> 4
      [] OTHER            -> 5

\* _rank: the sort key (kev, epss_rank, sev_rank)
Rank(v) == <<IF v.kev THEN -1 ELSE 0,
             0 - v.epss,
             severity_order(Lower(Or(v.severity, "unknown")))>>

\* tuple comparison a < b
RankLess(a, b) ==
    \/ a[1] < b[1]
    \/ a[1] = b[1] /\ a[2] < b[2]
    \/ a[1] = b[1] /\ a[2] = b[2] /\ a[3] < b[3]

\* list.sort(key=_rank): stable, so an entry goes behind every entry whose
\* key is not greater than its own
RECURSIVE SortByRank(_, _)
SortByRank(list, n) ==
    IF n = 0 THEN <<>>
    ELSE LET sorted == SortByRank(list, n - 1)
             x      == list[n]
             k      == Cardinality({i \in 1..Len(sorted) :
                                       ~RankLess(Rank(x), Rank(sorted[i]))})
         IN  SubSeq(sorted, 1, k) \o <<x>> \o SubSeq(sorted, k + 1, Len(sorted))

get_top_vulnerabilities(sr) ==
    LET collected == Collect(sr)
        unique    == Dedup(collected)
    IN  Take(SortByRank(unique, Len(unique)), 5)

\* --- the inputs of the model

PkgNames == <<"pkg01", "pkg02", "pkg03", "pkg04", "pkg05", "pkg06",
              "pkg07", "pkg08", "pkg09", "pkg10", "pkg11">>

\* a Safety or npm report of n findings of distinct packages: all of low
\* severity but the last, which is critical
ReportOf(n) ==
    [i \in 1..n |-> Raw(PkgNames[i], IF i = n THEN "critical" ELSE "low",
                        "<2.0", "2.0", FALSE, 0)]

\* findings a Trivy or Grype report may hold: two CVEs of one package
\* version with the same severity and fix, a spelling variant of its name,
\* and findings of every rank of severity
ScannerFindings ==
    { Raw("lodash",  "High",       "4.17.0", "4.17.21", FALSE, 0),
      Raw("lodash",  "High",       "4.17.0", "4.17.21", TRUE,  90),
      Raw("Lodash",  "HIGH",       "4.17.0", "4.17.21", FALSE, 0),
      Raw("openssl", "Critical",   "1.0.2",  "",        FALSE, 50),
      Raw("zlib",    "Low",        "1.2.8",  "1.2.12",  TRUE,  0),
      Raw("busybox", "Negligible", "1.30",   "",        FALSE, 0),
      Raw("curl",    "",           "7.60",   "7.88",    FALSE, 0) }

MaxFindings == 3

\* the reports of at most n findings
ReportsUpTo(n) ==
    UNION {[1..k -> ScannerFindings] : k \in 0..n}

ScanResults ==
    [safety    : {ReportOf(0), ReportOf(2), ReportOf(11)},
     npm_audit : {ReportOf(0), ReportOf(1)},
     trivy_fs  : ReportsUpTo(1),
     grype     : ReportsUpTo(MaxFindings)]

\* not in a call of get_top_vulnerabilities
AggIdle ==
    /\ agg_pc = "idle"
    /\ scan_results = [safety |-> <<>>, npm_audit |-> <<>>, trivy_fs |-> <<>>,
                       grype |-> <<>>]
    /\ vulnerabilities = <<>>
    /\ unique_vulns = <<>>
    /\ top_vulnerabilities = <<>>

\* generate_summary_report: top_vulnerabilities = get_top_vulnerabilities(scan_results)
top_vulnerabilities_call ==
    /\ agg_pc = "call"
    /\ agg_pc' = "returned"
    /\ vulnerabilities' = Collect(scan_results)
    /\ unique_vulns' = Dedup(Collect(scan_results))
    /\ top_vulnerabilities' = get_top_vulnerabilities(scan_results)
    /\ UNCHANGED <<scan_results, ctlVars, jobVars, fsVars, mainVars, listVars,
                   gateVars, leakVars>>

-----------------------------------------------------------------------------
(* Threat intelligence: load_kev, load_epss, enrich_grype_with_threat_intel *)

\* str.upper() on the strings that occur in the policy model
Upper(str) ==
    CASE str \in {"critical", "Critical"}     -> "CRITICAL"
      [] str \in {"high", "High"}             -> "HIGH"
      [] str \in {"medium", "Medium"}         -> "MEDIUM"
      [] str \in {"low", "Low"}               -> "LOW"
      [] str \in {"unknown", "Unknown"}       -> "UNKNOWN"
      [] str \in {"negligible", "Negligible"} -> "NEGLIGIBLE"
      [] OTHER                                -> str

\* the vulnerability identifiers of the model; a finding may also carry an
\* identifier no feed knows ("GHSA-1") or none ("")
CveIds == {"CVE-A", "CVE-B"}

\* what the remote feeds hold during the run (EPSS in percent)
KevFeed == {"CVE-A"}
EpssFeed == [c \in CveIds |-> IF c = "CVE-A" THEN 90 ELSE 10]

\* no key at all: the value of kev_map / epss_map before anything is loaded
NoIds == {}
NoScores == [c \in {} |-> 0]

\* the cache files an earlier run may have left
KevCaches == {[present |-> FALSE, val |-> NoIds],
              [present |-> TRUE, val |-> {"CVE-B"}]}
EpssCaches == {[present |-> FALSE, val |-> NoScores],
               [present |-> TRUE, val |-> [c \in {"CVE-B"} |-> 60]]}

\* how requests.get(url, timeout=10) is answered: a 2xx response, a response
\* whose r.ok is false, or an exception (connection error, timeout)
FetchOutcomes == {"ok", "status", "exception"}

\* the body of load_kev: the map it returns and the cache file it leaves
load_kev(fetch, file) ==
    CASE fetch = "ok"     -> [map  |-> KevFeed,
                              file |-> [present |-> TRUE, val |-> KevFeed]]
      [] fetch = "status" -> [map |-> NoIds, file |-> file]
      [] OTHER            -> [map  |-> IF file.present THEN file.val ELSE NoIds,
                              file |-> file]

\* the body of load_epss
load_epss(fetch, file) ==
    CASE fetch = "ok"     -> [map  |-> EpssFeed,
                              file |-> [present |-> TRUE, val |-> EpssFeed]]
      [] fetch = "status" -> [map |-> NoScores, file |-> file]
      [] OTHER            -> [map  |-> IF file.present THEN file.val ELSE NoScores,
                              file |-> file]

\* epss.get(cve, 0.0)
EpssGet(epss, cve) == IF cve \in DOMAIN epss THEN epss[cve] ELSE 0

\* A match of the Grype output as the gate reads it: [sev, id, kev, epss];
\* kev = FALSE and epss = 0 stand for a match without '_threat'.
enrich_grype_with_threat_intel(matches, kev, epss) ==
    [i \in DOMAIN matches |->
        IF matches[i].id = ""
        THEN matches[i]
        ELSE [matches[i] EXCEPT !.kev = (matches[i].id \in kev),
                                !.epss = EpssGet(epss, matches[i].id)]]

\* the threads that call the loaders: 1 is the worker whose summary report
\* is followed, 2 another worker of the pool
Callers == {1, 2}

\* load_kev() through its lru_cache, up to the request: a hit returns the
\* stored map, a miss calls the body
load_kev_entry(c) ==
    /\ g_pc[c] = "load_kev"
    /\ IF kev_memo.set
       THEN /\ g_kev' = [g_kev EXCEPT ![c] = kev_memo.val]
            /\ g_fetch' = [g_fetch EXCEPT ![c].kev = "hit"]
            /\ g_pc' = [g_pc EXCEPT ![c] = "load_epss"]
       ELSE /\ g_pc' = [g_pc EXCEPT ![c] = "kev_fetch"]
            /\ UNCHANGED <<g_kev, g_fetch>>
    /\ UNCHANGED <<kev_file, epss_file, kev_memo, epss_memo, g_epss, policy,
                   tool_out, evals>>
    /\ UNCHANGED <<ctlVars, jobVars, fsVars, mainVars, listVars, aggVars, leakVars>>

\* the body of load_kev returns: the caller gets the map this call built;
\* the lru_cache stores it unless another thread stored one meanwhile
load_kev_return(c) ==
    /\ g_pc[c] = "kev_fetch"
    /\ \E fetch \in FetchOutcomes :
         LET r == load_kev(fetch, kev_file)
         IN /\ g_kev' = [g_kev EXCEPT ![c] = r.map]
            /\ g_fetch' = [g_fetch EXCEPT ![c].kev = fetch]
            /\ kev_file' = r.file
            /\ kev_memo' = IF kev_memo.set THEN kev_memo
                           ELSE [set |-> TRUE, val |-> r.map]
    /\ g_pc' = [g_pc EXCEPT ![c] = "load_epss"]
    /\ UNCHANGED <<epss_file, epss_memo, g_epss, policy, tool_out, evals>>
    /\ UNCHANGED <<ctlVars, jobVars, fsVars, mainVars, listVars, aggVars, leakVars>>

\* load_epss() through its lru_cache, up to the request
load_epss_entry(c) ==
    /\ g_pc[c] = "load_epss"
    /\ IF epss_memo.set
       THEN /\ g_epss' = [g_epss EXCEPT ![c] = epss_memo.val]
            /\ g_fetch' = [g_fetch EXCEPT ![c].epss = "hit"]
            /\ g_pc' = [g_pc EXCEPT ![c] = "loaded"]
       ELSE /\ g_pc' = [g_pc EXCEPT ![c] = "epss_fetch"]
            /\ UNCHANGED <<g_epss, g_fetch>>
    /\ UNCHANGED <<kev_file, epss_file, kev_memo, epss_memo, g_kev, policy,
                   tool_out, evals>>
    /\ UNCHANGED <<ctlVars, jobVars, fsVars, mainVars, listVars, aggVars, leakVars>>

\* the body of load_epss returns
load_epss_return(c) ==
    /\ g_pc[c] = "epss_fetch"
    /\ \E fetch \in FetchOutcomes :
         LET r == load_epss(fetch, epss_file)
         IN /\ g_epss' = [g_epss EXCEPT ![c] = r.map]
            /\ g_fetch' = [g_fetch EXCEPT ![c].epss = fetch]
            /\ epss_file' = r.file
            /\ epss_memo' = IF epss_memo.set THEN epss_memo
                            ELSE [set |-> TRUE, val |-> r.map]
    /\ g_pc' = [g_pc EXCEPT ![c] = "loaded"]
    /\ UNCHANGED <<kev_file, kev_memo, g_kev, policy, tool_out, evals>>
    /\ UNCHANGED <<ctlVars, jobVars, fsVars, mainVars, listVars, aggVars, leakVars>>

-----------------------------------------------------------------------------
(* The policy gate: _read_json, load_policy, evaluate_policy *)

\* a threshold the gate of a tool does not set (dict.get gives None)
Absent == -1

\* A tool output file: [shape, items]. shape is "missing" (no file),
\* "malformed" (not JSON), "list" (a top-level JSON list, items its
\* elements) or "object" (a top-level JSON object, items its findings).
\* A finding is [sev, id, kev, epss], sev as the tool spells it.
Finding(sev, id) == [sev |-> sev, id |-> id, kev |-> FALSE, epss |-> 0]
Missing == [shape |-> "missing", items |-> <<>>]

\* None (shape "none") for a file that is missing or is not JSON
_read_json(out) ==
    IF out.shape \in {"missing", "malformed"}
    THEN [shape |-> "none", items |-> <<>>]
    ELSE out

\* bool(v)
Truthy(v) == v.shape = "object" \/ (v.shape = "list" /\ v.items # <<>>)

\* v or {}, {} having shape "empty"
OrEmptyDict_Dropped(v) == v
OrEmptyDict(v) == IF Truthy(v) THEN v ELSE [shape |-> "empty", items |-> <<>>]

\* d.get(key, []) on a value that has .get; the findings the key holds
Items(d) == IF d.shape = "object" THEN d.items ELSE <<>>

\* the gate of one tool: the thresholds of the policy document. max_counts
\* is a function from the severity names it lists (at most one here) to the
\* limits.
NoGate == [max_severity |-> "", max_counts |-> [k \in {} |-> 0],
           max_epss |-> Absent,
           require_no_kev |-> FALSE, max_findings |-> Absent,
           max_flows |-> Absent]

\* the tools evaluate_policy has a block for, and one it has none for
GateNames == {"grype", "checkov", "secrets", "semgrep", "semgrep_taint",
              "bandit", "trivy_fs"} \cup {"npm_audit"}

NoPolicy == [present |-> FALSE, gates |-> [t \in GateNames |-> NoGate]]

\* load_policy: {} when the file is missing, unreadable or empty
load_policy(doc) == IF doc.present THEN doc ELSE NoPolicy

\* one entry of the violations list: the tool its text starts with, the
\* threshold it reports and the severity or key it names
Violation(tool, rule, detail) == [tool |-> tool, rule |-> rule, detail |-> detail]

\* what a call returns: (passed, violations), or an exception
Returned(violations) ==
    [raised |-> FALSE, passed |-> (Len(violations) = 0), violations |-> violations]
Raised == [raised |-> TRUE, passed |-> FALSE, violations |-> <<>>]

\* the number of findings counted under key k
Count(sevs, k) == Cardinality({i \in DOMAIN sevs : sevs[i] = k})

\* the loop over counts.items() of a max_severity threshold: the first key,
\* in insertion order, at or above max_sev that has findings
MaxSeverityViolation(tool, max_sev, keys, order, sevs, eligible) ==
    IF max_sev \notin DOMAIN order
    THEN <<>>
    ELSE LET hits == {i \in DOMAIN keys :
                        /\ order[keys[i]] >= order[max_sev]
                        /\ Count(sevs, keys[i]) > 0
                        /\ keys[i] \in eligible}
         IN IF hits = {} THEN <<>>
            ELSE <<Violation(tool, "max_severity",
                             keys[CHOOSE i \in hits : \A k \in hits : i <= k])>>

\* the loop over max_counts.items(); the key is looked up in upper case
\* (sev.upper()) or in lower case (sev.lower())
MaxCountsViolations(tool, mcounts, upper, sevs) ==
    LET over == {k \in DOMAIN mcounts :
                   Count(sevs, IF upper THEN Upper(k) ELSE Lower(k)) > mcounts[k]}
    IN IF over = {} THEN <<>>
       ELSE <<Violation(tool, "max_counts", CHOOSE k \in over : TRUE)>>

\* sev_rank of the Grype block, sev_rank.get(s, -1)
sev_rank(s) ==
    CASE s = "critical"   -> 4
      [] s = "high"       -> 3
      [] s = "medium"     -> 2
      [] s = "low"        -> 1
      [] s = "negligible" -> 0
      [] OTHER            -> -1

\* the Grype block; the maps are what load_kev() and load_epss() returned
\* to enrich_grype_with_threat_intel
grype_gate(gcfg, out, kev, epss) ==
    LET gd      == OrEmptyDict(_read_json(out))
        matches == enrich_grype_with_threat_intel(Items(gd), kev, epss)
        max_sev == Lower(gcfg.max_severity)
        reach   == {i \in DOMAIN matches :
                      sev_rank(Lower(Or(matches[i].sev, "unknown")))
                         >= sev_rank(max_sev)}
    IN IF gd.shape \notin {"object", "empty"}
       THEN Raised     \* gd.get('matches') on a value that is no dict
       ELSE Returned(
              (IF gcfg.require_no_kev /\ \E i \in DOMAIN matches : matches[i].kev
               THEN <<Violation("grype", "require_no_kev", "")>> ELSE <<>>)
              \o
              (IF gcfg.max_epss # Absent
                  /\ \E i \in DOMAIN matches : matches[i].epss >= gcfg.max_epss
               THEN <<Violation("grype", "max_epss", "")>> ELSE <<>>)
              \o
              (IF sev_rank(max_sev) >= 0 /\ reach # {}
               THEN <<Violation("grype", "max_severity",
                        Lower(Or(matches[CHOOSE i \in reach :
                                           \A k \in reach : i <= k].sev,
                                 "unknown")))>>
               ELSE <<>>))

\* the severities of the Checkov and Trivy blocks: upper case, anything
\* outside the counts dictionary counted as UNKNOWN
FiveLevels == <<"CRITICAL", "HIGH", "MEDIUM", "LOW", "UNKNOWN">>
FiveOrder == [CRITICAL |-> 4, HIGH |-> 3, MEDIUM |-> 2, LOW |-> 1, UNKNOWN |-> 0]
FiveSev(f) ==
    LET sev == Upper(Or(f.sev, "UNKNOWN"))
    IN IF sev \in DOMAIN FiveOrder THEN sev ELSE "UNKNOWN"

\* the Checkov block
checkov_gate(ccfg, out) ==
    LET data   == OrEmptyDict(_read_json(out))
        failed == Items(data)
        sevs   == [i \in DOMAIN failed |-> FiveSev(failed[i])]
    IN IF data.shape \notin {"object", "empty"}
       THEN Raised     \* data.get('results', {}) on a value that is no dict
       ELSE Returned(
              MaxSeverityViolation("checkov", Upper(ccfg.max_severity),
                                   FiveLevels, FiveOrder, sevs,
                                   {"CRITICAL", "HIGH", "MEDIUM", "LOW"})
              \o MaxCountsViolations("checkov", ccfg.max_counts, TRUE, sevs))

\* the secrets block: the Gitleaks report is a list of findings
secrets_gate(scfg, out) ==
    LET secrets == _read_json(out)
        total   == IF secrets.shape = "list" THEN Len(secrets.items) ELSE 0
    IN Returned(IF scfg.max_findings # Absent /\ total > scfg.max_findings
                THEN <<Violation("secrets", "max_findings", "")>> ELSE <<>>)

\* the Semgrep block: ERROR, WARNING and INFO counted as high, medium, low
map_sev(s) ==
    CASE s = "ERROR"   -> "high"
      [] s = "WARNING" -> "medium"
      [] s = "INFO"    -> "low"
      [] OTHER         -> ""
semgrep_gate(sgcfg, out) ==
    LET data    == OrEmptyDict(_read_json(out))
        found == Items(data)
        sevs    == [i \in DOMAIN found |-> map_sev(Upper(found[i].sev))]
    IN Returned(
         MaxSeverityViolation("semgrep", Lower(sgcfg.max_severity),
                              <<"high", "medium", "low">>,
                              [critical |-> 3, high |-> 2, medium |-> 1, low |-> 0],
                              sevs, {"high", "medium", "low"})
         \o MaxCountsViolations("semgrep", sgcfg.max_counts, FALSE, sevs))

\* the Semgrep taint block
semgrep_taint_gate(tcfg, out) ==
    LET flows == Items(OrEmptyDict(_read_json(out)))
    IN Returned(IF tcfg.max_flows # Absent /\ Len(flows) > tcfg.max_flows
                THEN <<Violation("semgrep_taint", "max_flows", "")>> ELSE <<>>)

\* the Bandit block
bandit_gate(bcfg, out) ==
    LET found == Items(OrEmptyDict(_read_json(out)))
        sevs    == [i \in DOMAIN found |-> Upper(found[i].sev)]
    IN Returned(
         MaxSeverityViolation("bandit", Upper(bcfg.max_severity),
                              <<"HIGH", "MEDIUM", "LOW">>,
                              [CRITICAL |-> 3, HIGH |-> 2, MEDIUM |-> 1, LOW |-> 0],
                              sevs, {"HIGH", "MEDIUM", "LOW"})
         \o MaxCountsViolations("bandit", bcfg.max_counts, TRUE, sevs))

\* the Trivy filesystem block
trivy_fs_gate(tvcfg, out) ==
    LET found == Items(OrEmptyDict(_read_json(out)))
        sevs    == [i \in DOMAIN found |-> FiveSev(found[i])]
    IN Returned(
         MaxSeverityViolation("trivy_fs", Upper(tvcfg.max_severity),
                              FiveLevels, FiveOrder, sevs, DOMAIN FiveOrder)
         \o MaxCountsViolations("trivy_fs", tvcfg.max_counts, TRUE, sevs))

\* the default when load_policy() gives {}: the Checkov gate at High
default_gate(out) ==
    LET data   == OrEmptyDict(_read_json(out))
        failed == Items(data)
    IN IF data.shape \notin {"object", "empty"}
       THEN Raised     \* data.get('results', {}) on a value that is no dict
       ELSE Returned(
              IF \E i \in DOMAIN failed :
                   Upper(Or(failed[i].sev, "")) \in {"CRITICAL", "HIGH"}
              THEN <<Violation("checkov", "default", "")>> ELSE <<>>)

\* the blocks in the order of the code; a block runs when the gates map has
\* a non-empty entry under its name
GateOf(tool, gates, outs, kev, epss) ==
    IF gates[tool] = NoGate
    THEN Returned(<<>>)
    ELSE CASE tool = "grype"         -> grype_gate(gates[tool], outs[tool], kev, epss)
           [] tool = "checkov"       -> checkov_gate(gates[tool], outs[tool])
           [] tool = "secrets"       -> secrets_gate(gates[tool], outs[tool])
           [] tool = "semgrep"       -> semgrep_gate(gates[tool], outs[tool])
           [] tool = "semgrep_taint" -> semgrep_taint_gate(gates[tool], outs[tool])
           [] tool = "bandit"        -> bandit_gate(gates[tool], outs[tool])
           [] tool = "trivy_fs"      -> trivy_fs_gate(gates[tool], outs[tool])

GateSequence == <<"grype", "checkov", "secrets", "semgrep", "semgrep_taint",
                  "bandit", "trivy_fs">>

\* evaluate_policy on a policy document and the output files, given the
\* maps the loaders return to it
evaluate_policy(doc, outs, kev, epss) ==
    LET pol == load_policy(doc)
        r   == [i \in DOMAIN GateSequence |->
                  GateOf(GateSequence[i], pol.gates, outs, kev, epss)]
    IN IF ~pol.present
       THEN default_gate(outs["checkov"])
       ELSE IF \E i \in DOMAIN r : r[i].raised
            THEN Raised
            ELSE Returned(r[1].violations \o r[2].violations \o r[3].violations
                          \o r[4].violations \o r[5].violations
                          \o r[6].violations \o r[7].violations)

\* evaluate_policy calls the loaders: the Grype block runs and its output is
\* a non-empty value
NeedsIntel(doc, outs) ==
    /\ doc.present
    /\ doc.gates["grype"] # NoGate
    /\ Truthy(OrEmptyDict(_read_json(outs["grype"])))

\* generate_summary_report calls evaluate_policy twice; an exception of the
\* first call leaves the with block, so the second call is not made
CallsPerReport == 2

AfterCall(r) ==
    /\ evals' = Append(evals, r)
    /\ g_pc' = [g_pc EXCEPT ![1] = IF r.raised \/ Len(evals) + 1 = CallsPerReport
                                   THEN "done" ELSE "call"]

\* a call of evaluate_policy, up to its first call of a loader or, when it
\* calls none, to its return
evaluate_policy_begin ==
    /\ g_pc[1] = "call"
    /\ IF NeedsIntel(policy, tool_out)
       THEN /\ g_pc' = [g_pc EXCEPT ![1] = "load_kev"]
            /\ UNCHANGED evals
       ELSE AfterCall(evaluate_policy(policy, tool_out, NoIds, NoScores))
    /\ UNCHANGED <<kev_file, epss_file, kev_memo, epss_memo, g_kev, g_epss,
                   g_fetch, policy, tool_out>>
    /\ UNCHANGED <<ctlVars, jobVars, fsVars, mainVars, listVars, aggVars, leakVars>>

\* the rest of a call that has the maps of the loaders
evaluate_policy_end ==
    /\ g_pc[1] = "loaded"
    /\ AfterCall(evaluate_policy(policy, tool_out, g_kev[1], g_epss[1]))
    /\ UNCHANGED <<kev_file, epss_file, kev_memo, epss_memo, g_kev, g_epss,
                   g_fetch, policy, tool_out>>
    /\ UNCHANGED <<ctlVars, jobVars, fsVars, mainVars, listVars, aggVars, leakVars>>

\* no report is being written
GateIdle ==
    /\ kev_file = [present |-> FALSE, val |-> NoIds]
    /\ epss_file = [present |-> FALSE, val |-> NoScores]
    /\ kev_memo = [set |-> FALSE, val |-> NoIds]
    /\ epss_memo = [set |-> FALSE, val |-> NoScores]
    /\ g_pc = [c \in Callers |-> "done"]
    /\ g_kev = [c \in Callers |-> NoIds]
    /\ g_epss = [c \in Callers |-> NoScores]
    /\ g_fetch = [c \in Callers |-> [kev |-> "none", epss |-> "none"]]
    /\ policy = NoPolicy
    /\ tool_out = [t \in GateNames |-> Missing]
    /\ evals = <<>>

\* the gates a policy document of the model may set for a tool
GatesOf(tool) ==
    CASE tool = "grype" ->
           {[NoGate EXCEPT !.max_severity = "high"],
            [NoGate EXCEPT !.require_no_kev = TRUE],
            [NoGate EXCEPT !.max_epss = 50],
            [NoGate EXCEPT !.max_counts = [k \in {"high"} |-> 0]]}
      [] tool = "checkov" ->
           {[NoGate EXCEPT !.max_severity = "High"],
            [NoGate EXCEPT !.max_severity = "unknown"],
            [NoGate EXCEPT !.max_counts = [k \in {"low"} |-> 0]]}
      [] tool = "secrets" -> {[NoGate EXCEPT !.max_findings = 1]}
      [] tool = "semgrep" -> {[NoGate EXCEPT !.max_severity = "medium"]}
      [] tool = "semgrep_taint" -> {[NoGate EXCEPT !.max_flows = 0]}
      [] tool = "bandit" -> {[NoGate EXCEPT !.max_severity = "critical"]}
      [] tool = "trivy_fs" ->
           {[NoGate EXCEPT !.max_severity = "high"],
            [NoGate EXCEPT !.max_counts = [k \in {"medium"} |-> 1]]}
      [] OTHER -> {[NoGate EXCEPT !.max_severity = "high"]}

\* the output files a tool of the model may leave, besides none
OutputsOf(tool) ==
    CASE tool = "grype" ->
           {[shape |-> "list", items |-> <<Finding("High", "CVE-A")>>],
            [shape |-> "object", items |-> <<Finding("High", "CVE-A")>>],
            [shape |-> "object",
             items |-> <<Finding("Low", "GHSA-1"), Finding("Critical", "")>>]}
      [] tool = "checkov" ->
           {[shape |-> "list", items |-> <<Finding("HIGH", "")>>],
            [shape |-> "object", items |-> <<Finding("HIGH", "")>>],
            [shape |-> "object", items |-> <<Finding("LOW", ""), Finding("", "")>>]}
      [] tool = "secrets" ->
           {[shape |-> "malformed", items |-> <<>>],
            [shape |-> "list", items |-> <<Finding("", ""), Finding("", "")>>]}
      [] tool = "semgrep" ->
           {[shape |-> "object", items |-> <<Finding("ERROR", "")>>],
            [shape |-> "object", items |-> <<Finding("INFO", "")>>]}
      [] tool = "semgrep_taint" ->
           {[shape |-> "object", items |-> <<Finding("ERROR", "")>>]}
      [] tool = "bandit" ->
           {[shape |-> "object", items |-> <<Finding("HIGH", "")>>]}
      [] tool = "trivy_fs" ->
           {[shape |-> "object", items |-> <<Finding("CRITICAL", "CVE-A")>>],
            [shape |-> "object",
             items |-> <<Finding("MEDIUM", "CVE-B"), Finding("UNKNOWN", "")>>]}
      [] OTHER ->
           {[shape |-> "object", items |-> <<Finding("high", "")>>]}


\* the policy documents: none, one without gates, one gate, and a gate for
\* Trivy next to one for Grype or Checkov
Policies ==
    {NoPolicy, [NoPolicy EXCEPT !.present = TRUE]}
    \cup UNION {{[present |-> TRUE, gates |-> [NoPolicy.gates EXCEPT ![a] = x]] :
                   x \in GatesOf(a)} : a \in GateNames}
    \cup UNION {{[present |-> TRUE,
                  gates |-> [NoPolicy.gates EXCEPT ![a] = x, !["trivy_fs"] = y]] :
                   x \in GatesOf(a), y \in GatesOf("trivy_fs")} : a \in {"grype", "checkov"}}

\* the report directories: no output, the output of one tool, and an output
\* of Trivy next to one of Grype or Checkov
ReportDirs ==
    {[t \in GateNames |-> Missing]}
    \cup UNION {{[[t \in GateNames |-> Missing] EXCEPT ![a] = x] : x \in OutputsOf(a)} : a \in GateNames}
    \cup UNION {{[[t \in GateNames |-> Missing] EXCEPT ![a] = x, !["trivy_fs"] = y] :
                   x \in OutputsOf(a), y \in OutputsOf("trivy_fs")} : a \in {"grype", "checkov"}}

-----------------------------------------------------------------------------
(* scan_gitleaks: the pool of main, clone_repo and run_gitleaks_scan *)

\* the repositories submitted to the pool of five workers; each runs in a
\* thread of its own
LeakRepos == {1, 2}

\* config.CLONE_DIR before clone_repo assigned it; a directory made by
\* tempfile.mkdtemp is named after the repository whose thread made it
NoDir == 0

\* run_gitleaks_scan: the text of <name>_gitleaks.md it leaves, given the
\* one that was there ("" : there is no such file). A run ends with the
\* binary missing, with exit code 0, with exit code 1 and a readable or an
\* unreadable findings file, with another exit code, or with subprocess.run
\* raising before the report is opened.
gitleaks_report(o, before) ==
    CASE o = "not_installed" -> "# Error: Gitleaks is not installed"
      [] o = "rc0"           -> "## No secrets found"
      [] o = "rc1"           -> "## Found N potential secrets"
      [] o = "rc1_badjson"   -> "## Error: Error processing findings"
      [] o = "rc2"           -> "## Error: Gitleaks failed with return code"
      [] OTHER               -> before

\* clone_repo up to the assignment of config.CLONE_DIR, in two steps: the
\* test `if not config.CLONE_DIR`, and tempfile.mkdtemp with the assignment
gitleaks_clone_repo(w) ==
    /\ s_main = "pool"
    /\ \/ /\ s_pc[w] = "start"
          /\ s_pc' = [s_pc EXCEPT ![w] =
                        IF CLONE_DIR = NoDir THEN "mkdtemp" ELSE "git"]
          /\ UNCHANGED <<CLONE_DIR, tmp_roots>>
       \/ /\ s_pc[w] = "mkdtemp"
          /\ tmp_roots' = tmp_roots \cup {w}
          /\ CLONE_DIR' = w
          /\ s_pc' = [s_pc EXCEPT ![w] = "git"]
    /\ UNCHANGED <<s_main, s_result, report_file, secret_repos>>
    /\ UNCHANGED <<ctlVars, jobVars, fsVars, mainVars, listVars, aggVars,
                   gateVars>>

\* process_repo from the git command of clone_repo on: when the clone fails
\* clone_repo returns None and process_repo returns; otherwise
\* run_gitleaks_scan writes the report and the finally clause removes the
\* checkout
gitleaks_process_repo(w) ==
    /\ s_pc[w] = "git"
    /\ \E o \in {"clone_failed", "not_installed", "rc0", "rc1", "rc1_badjson",
                 "rc2", "exception"} :
         /\ s_result' = [s_result EXCEPT ![w] = o]
         /\ report_file' = [report_file EXCEPT ![w] =
                              IF o = "clone_failed" THEN @
                              ELSE gitleaks_report(o, @)]
    /\ s_pc' = [s_pc EXCEPT ![w] = "returned"]
    /\ UNCHANGED <<s_main, CLONE_DIR, tmp_roots, secret_repos>>
    /\ UNCHANGED <<ctlVars, jobVars, fsVars, mainVars, listVars, aggVars,
                   gateVars>>

\* main from the as_completed loop on: the body of the loop for one finished
\* future (the report file exists and "No secrets found" is not in it), and
\* after the loop the summary and shutil.rmtree(config.CLONE_DIR)
gitleaks_main ==
    /\ s_main = "pool"
    /\ \/ \E w \in LeakRepos :
            /\ s_pc[w] = "returned"
            /\ s_pc' = [s_pc EXCEPT ![w] = "collected"]
            /\ secret_repos' =
                  IF report_file[w] # "" /\ report_file[w] # "## No secrets found"
                  THEN secret_repos \cup {w}
                  ELSE secret_repos
            /\ UNCHANGED <<s_main, tmp_roots>>
       \/ /\ \A w \in LeakRepos : s_pc[w] = "collected"
          /\ s_main' = "done"
          /\ tmp_roots' = tmp_roots \ {CLONE_DIR}
          /\ UNCHANGED <<s_pc, secret_repos>>
    /\ UNCHANGED <<s_result, report_file, CLONE_DIR>>
    /\ UNCHANGED <<ctlVars, jobVars, fsVars, mainVars, listVars, aggVars,
                   gateVars>>

\* scan_gitleaks is not running
LeakIdle ==
    /\ s_main = "idle"
    /\ s_pc = [w \in LeakRepos |-> "start"]
    /\ s_result = [w \in LeakRepos |-> "none"]
    /\ report_file = [w \in LeakRepos |-> ""]
    /\ CLONE_DIR = NoDir
    /\ tmp_roots = {}
    /\ secret_repos = {}

-----------------------------------------------------------------------------
(* Initial states and specifications *)

\* the repositories a run of the pool is given: what is in each checkout
RepoKinds == {{}, PrereqFiles \ {"go.mod"}, PrereqFiles}

Configs(docker, taint, workers) ==
    [DOCKER_IMAGE : docker, SEMGREP_TAINT_CONFIG : taint, max_workers : workers,
     include_forks : {FALSE}, include_archived : {FALSE},
     GITHUB_TOKEN : {TRUE}, repo : {""}]

\* the state when main enters the with block, for a given list of
\* repositories and a budget of faults
InitPool(repo_list, budget) ==
    /\ pause_flag = FALSE
    /\ stop_flag = FALSE
    /\ scan_state = [status |-> "none", last_repo |-> 0]
    /\ control_ops = 0
    /\ jobs = repo_list
    /\ pc = [j \in 1..Len(repo_list) |-> "queued"]
    /\ ip = [j \in 1..Len(repo_list) |-> 1]
    /\ inflight = [j \in 1..Len(repo_list) |-> "none"]
    /\ results = [j \in 1..Len(repo_list) |-> [t \in Tools |-> "unset"]]
    /\ invoked = [j \in 1..Len(repo_list) |-> <<>>]
    /\ ck_ok = [j \in 1..Len(repo_list) |-> FALSE]
    /\ could_not_run = [j \in 1..Len(repo_list) |-> {}]
    /\ outcome = [j \in 1..Len(repo_list) |-> "none"]
    /\ summary = [j \in 1..Len(repo_list) |-> FALSE]
    /\ future_exc = [j \in 1..Len(repo_list) |-> "none"]
    /\ root_exists = TRUE
    /\ checkouts = {}
    /\ cleanup_log = {}
    /\ faults_left = budget
    /\ main_pc = "pool"
    /\ exit_code = -1
    /\ l_pc = "idle"
    /\ page = 1
    /\ retry_count = 0
    /\ api_path = "orgs"
    /\ tried_user_fallback = FALSE
    /\ repos = <<>>
    /\ requests_made = 0
    /\ l_last = [status |-> -1, sleep |-> 0, reset |-> NoHeader, now |-> 0]
    /\ rate_waits = 0
    /\ AggIdle
    /\ GateIdle
    /\ LeakIdle

\* two repositories in a pool of one or two workers, every tool behaving
Init ==
    /\ cfg \in Configs(BOOLEAN, {FALSE}, {1, 2})
    /\ \E f \in {{}, PrereqFiles \ {"go.mod"}} :
         InitPool(<<[name |-> 1, files |-> f], [name |-> 2, files |-> {}]>>,
                  0)

\* one repository of any kind, with faults
InitJob ==
    /\ cfg \in Configs(BOOLEAN, BOOLEAN, {0, 4})
    /\ \E f \in RepoKinds : InitPool(<<[name |-> 1, files |-> f]>>, MaxFaults)

\* main after parsing its arguments
InitLister ==
    /\ cfg \in [DOCKER_IMAGE : {FALSE}, SEMGREP_TAINT_CONFIG : {FALSE},
                max_workers : {4}, include_forks : BOOLEAN,
                include_archived : BOOLEAN, GITHUB_TOKEN : BOOLEAN,
                repo : {"", "owner/name"}]
    /\ pause_flag = FALSE
    /\ stop_flag = FALSE
    /\ scan_state = [status |-> "none", last_repo |-> 0]
    /\ control_ops = 0
    /\ jobs = <<>>
    /\ pc = <<>>
    /\ ip = <<>>
    /\ inflight = <<>>
    /\ results = <<>>
    /\ invoked = <<>>
    /\ ck_ok = <<>>
    /\ could_not_run = <<>>
    /\ outcome = <<>>
    /\ summary = <<>>
    /\ future_exc = <<>>
    /\ root_exists = TRUE
    /\ checkouts = {}
    /\ cleanup_log = {}
    /\ faults_left = 0
    /\ main_pc = "start"
    /\ exit_code = -1
    /\ l_pc = "idle"
    /\ page = 1
    /\ retry_count = 0
    /\ api_path = "orgs"
    /\ tried_user_fallback = FALSE
    /\ repos = <<>>
    /\ requests_made = 0
    /\ l_last = [status |-> -1, sleep |-> 0, reset |-> NoHeader, now |-> 0]
    /\ rate_waits = 0
    /\ AggIdle
    /\ GateIdle
    /\ LeakIdle

\* generate_summary_report about to call get_top_vulnerabilities on the
\* findings of the tools
InitAgg ==
    /\ cfg \in Configs({FALSE}, {FALSE}, {4})
    /\ pause_flag = FALSE
    /\ stop_flag = FALSE
    /\ scan_state = [status |-> "running", last_repo |-> 1]
    /\ control_ops = 0
    /\ jobs = <<>>
    /\ pc = <<>>
    /\ ip = <<>>
    /\ inflight = <<>>
    /\ results = <<>>
    /\ invoked = <<>>
    /\ ck_ok = <<>>
    /\ could_not_run = <<>>
    /\ outcome = <<>>
    /\ summary = <<>>
    /\ future_exc = <<>>
    /\ root_exists = TRUE
    /\ checkouts = {}
    /\ cleanup_log = {}
    /\ faults_left = 0
    /\ main_pc = "pool"
    /\ exit_code = -1
    /\ l_pc = "idle"
    /\ page = 1
    /\ retry_count = 0
    /\ api_path = "orgs"
    /\ tried_user_fallback = FALSE
    /\ repos = <<>>
    /\ requests_made = 0
    /\ l_last = [status |-> -1, sleep |-> 0, reset |-> NoHeader, now |-> 0]
    /\ rate_waits = 0
    /\ agg_pc = "call"
    /\ scan_results \in ScanResults
    /\ vulnerabilities = <<>>
    /\ unique_vulns = <<>>
    /\ top_vulnerabilities = <<>>
    /\ GateIdle
    /\ LeakIdle

\* generate_summary_report of one job about to evaluate the policy gate,
\* while, in a pool of two workers, another job calls the loaders
InitGate ==
    /\ cfg \in Configs({FALSE}, {FALSE}, {1, 2})
    /\ pause_flag = FALSE
    /\ stop_flag = FALSE
    /\ scan_state = [status |-> "running", last_repo |-> 1]
    /\ control_ops = 0
    /\ jobs = <<>>
    /\ pc = <<>>
    /\ ip = <<>>
    /\ inflight = <<>>
    /\ results = <<>>
    /\ invoked = <<>>
    /\ ck_ok = <<>>
    /\ could_not_run = <<>>
    /\ outcome = <<>>
    /\ summary = <<>>
    /\ future_exc = <<>>
    /\ root_exists = TRUE
    /\ checkouts = {}
    /\ cleanup_log = {}
    /\ faults_left = 0
    /\ main_pc = "pool"
    /\ exit_code = -1
    /\ l_pc = "idle"
    /\ page = 1
    /\ retry_count = 0
    /\ api_path = "orgs"
    /\ tried_user_fallback = FALSE
    /\ repos = <<>>
    /\ requests_made = 0
    /\ l_last = [status |-> -1, sleep |-> 0, reset |-> NoHeader, now |-> 0]
    /\ rate_waits = 0
    /\ AggIdle
    /\ \E cached \in BOOLEAN :
         /\ kev_file \in {f \in KevCaches : f.present = cached}
         /\ epss_file \in {f \in EpssCaches : f.present = cached}
    /\ kev_memo = [set |-> FALSE, val |-> NoIds]
    /\ epss_memo = [set |-> FALSE, val |-> NoScores]
    /\ g_pc = [c \in Callers |->
                 IF c = 1 THEN "call"
                 ELSE IF PoolSize >= 2 THEN "load_kev" ELSE "done"]
    /\ g_kev = [c \in Callers |-> NoIds]
    /\ g_epss = [c \in Callers |-> NoScores]
    /\ g_fetch = [c \in Callers |-> [kev |-> "none", epss |-> "none"]]
    /\ policy \in Policies
    /\ tool_out \in ReportDirs
    /\ evals = <<>>
    /\ LeakIdle

Next ==
    \/ \E j \in JobIds : JobStart(j)
    \/ \E j \in JobIds : clone_repo(j)
    \/ \E j \in JobIds : check_control_stop(j)
    \/ \E j \in JobIds : check_control_pause(j)
    \/ \E j \in JobIds : check_control_wake(j)
    \/ \E j \in JobIds : ToolCall(j)
    \/ \E j \in JobIds : ToolReturn(j)
    \/ \E j \in JobIds : generate_summary_report(j)
    \/ \E j \in JobIds : write_done(j)
    \/ \E j \in JobIds : process_repo_finally(j)
    \/ main_finish
    \/ \E ch \in {"p", "s", "q", "x"} : HotkeyListener(ch)
    \/ \E cmd \in {"touch pause", "rm pause", "touch stop"} : ControlCommand(cmd)

NextLister ==
    \/ main_start
    \/ \E n \in ListingSizes : get_all_repos(n)
    \/ main_submit

Spec == Init /\ [][Next]_vars

SpecJob == InitJob /\ [][Next]_vars

\* Every job that has started runs in a thread of its own: time.sleep(10)
\* ends, and a thread that can take its next statement is scheduled to take
\* it. Nothing is assumed of the operator, of the subprocesses of the tools,
\* or of the pool taking a queued job.
ThreadsRun ==
    \A j \in {1, 2} :
       /\ WF_vars(check_control_stop(j))
       /\ WF_vars(check_control_pause(j))
       /\ WF_vars(check_control_wake(j))
       /\ WF_vars(ToolCall(j))
       /\ WF_vars(generate_summary_report(j))

\* two repositories without prerequisite files in a pool of two workers
InitLive ==
    /\ cfg \in Configs({FALSE}, {FALSE}, {2})
    /\ InitPool(<<[name |-> 1, files |-> {}], [name |-> 2, files |-> {}]>>, 0)

SpecLive == InitLive /\ [][Next]_vars /\ ThreadsRun

SpecLister == InitLister /\ [][NextLister]_vars

NextAgg == top_vulnerabilities_call

SpecAgg == InitAgg /\ [][NextAgg]_vars

\* scan_gitleaks' main has entered the pool with two repositories; the
\* report directory, which outlives a run, may hold a report of an earlier
\* run that found secrets
InitLeaks ==
    /\ cfg \in Configs({FALSE}, {FALSE}, {5})
    /\ pause_flag = FALSE
    /\ stop_flag = FALSE
    /\ scan_state = [status |-> "none", last_repo |-> 0]
    /\ control_ops = 0
    /\ jobs = <<>>
    /\ pc = <<>>
    /\ ip = <<>>
    /\ inflight = <<>>
    /\ results = <<>>
    /\ invoked = <<>>
    /\ ck_ok = <<>>
    /\ could_not_run = <<>>
    /\ outcome = <<>>
    /\ summary = <<>>
    /\ future_exc = <<>>
    /\ root_exists = FALSE
    /\ checkouts = {}
    /\ cleanup_log = {}
    /\ faults_left = 0
    /\ main_pc = "idle"
    /\ exit_code = -1
    /\ l_pc = "idle"
    /\ page = 1
    /\ retry_count = 0
    /\ api_path = "orgs"
    /\ tried_user_fallback = FALSE
    /\ repos = <<>>
    /\ requests_made = 0
    /\ l_last = [status |-> -1, sleep |-> 0, reset |-> NoHeader, now |-> 0]
    /\ rate_waits = 0
    /\ AggIdle
    /\ GateIdle
    /\ s_main = "pool"
    /\ s_pc = [w \in LeakRepos |-> "start"]
    /\ s_result = [w \in LeakRepos |-> "none"]
    /\ report_file \in [LeakRepos -> {"", "## Found N potential secrets"}]
    /\ CLONE_DIR = NoDir
    /\ tmp_roots = {}
    /\ secret_repos = {}

NextLeaks ==
    \/ \E w \in LeakRepos : gitleaks_clone_repo(w)
    \/ \E w \in LeakRepos : gitleaks_process_repo(w)
    \/ gitleaks_main

SpecLeaks == InitLeaks /\ [][NextLeaks]_vars

NextGate ==
    \/ \E c \in Callers : load_kev_entry(c)
    \/ \E c \in Callers : load_kev_return(c)
    \/ \E c \in Callers : load_epss_entry(c)
    \/ \E c \in Callers : load_epss_return(c)
    \/ evaluate_policy_begin
    \/ evaluate_policy_end

SpecGate == InitGate /\ [][NextGate]_vars

-----------------------------------------------------------------------------
(* Claims *)

InToolPhase(k) == pc[k] \in {"body", "ck_pause", "ck_sleep", "tool_run"}

\* C1: a job that ends Stopped at its first check_control checkpoint (stop.flag
\* was there before the job got to it) has called no tool wrapper at all, the
\* Safety and pip-audit wrappers included.
C1_StoppedAtFirstCheckpointRanNoTool ==
    \A j \in JobIds :
        (outcome[j] = "Stopped" /\ ip[j] = FirstCheckpoint) => invoked[j] = <<>>

\* C2: when stop.flag exists while a job stands between two statements of the
\* body, after one tool has completed and without having consulted
\* check_control since, the job's next step does not call another tool wrapper:
\* exactly the tools run so far have run.
C2_NoToolStartsAfterStopBetweenTools ==
    [][\A j \in JobIds :
          (stop_flag /\ pc[j] = "body" /\ invoked[j] # <<>> /\ ~ck_ok[j])
              => invoked'[j] = invoked[j]]_vars

\* C3: a tool wrapper is called while pause.flag exists only by a job whose
\* previous statement was a check_control that returned (the flag appeared
\* after the checkpoint let the job through): every tool call is preceded by
\* a checkpoint.
C3_NoToolStartsWhilePausedWithoutCheckpoint ==
    [][\A j \in JobIds :
          (pause_flag /\ Len(invoked'[j]) > Len(invoked[j])) => ck_ok[j]]_vars

\* C4: no job ends Failed once it has called a tool wrapper: whatever a tool or
\* its wrapper does, the job goes on to the later tools and the summary.
C4_ToolFailureNeverAbortsJob ==
    \A j \in JobIds : outcome[j] = "Failed" => invoked[j] = <<>>

\* C5: a step of job j neither removes the shared checkout root nor the
\* checkout directory of another job that is in its tool phase.
C5_JobRemovesOnlyItsOwnCheckout ==
    [][\A j \in JobIds :
          pc'[j] # pc[j] =>
              /\ root_exists => root_exists'
              /\ \A k \in JobIds \ {j} :
                    (InToolPhase(k) /\ RepoName(k) \in checkouts)
                        => RepoName(k) \in checkouts']_vars

\* C6: in a job that ended Done every tool called has a recorded result, and
\* a tool that could not execute has a result that is not the None of a tool
\* skipped for a missing prerequisite file.
C6_ToolThatCouldNotRunHasErrorResult ==
    \A j \in JobIds :
        outcome[j] = "Done" =>
            /\ \A k \in 1..Len(invoked[j]) : results[j][invoked[j][k]] # "unset"
            /\ \A t \in could_not_run[j] : results[j][t] \notin {"unset", "None"}

\* C7: the list of repositories submitted to the pool has no two entries with
\* the same name, hence no two jobs with the same checkout directory.
C7_NoTwoJobsShareACheckoutPath ==
    main_pc = "pool" =>
        \A a, b \in JobIds : a # b => jobs[a].name # jobs[b].name

\* C8: a job that has ended has written one terminal record, and unless it was
\* stopped, a job that got as far as calling a tool has written its summary.
C8_EndedJobHasRecordAndSummary ==
    \A j \in JobIds :
        pc[j] = "ended" =>
            /\ outcome[j] \in {"Done", "Stopped", "Failed"}
            /\ (invoked[j] # <<>> /\ outcome[j] # "Stopped") => summary[j]

\* C9: a tool subprocess that never returns is one that runs under a timeout.
C9_HungToolIsBoundedByTimeout ==
    \A j \in JobIds :
        (pc[j] = "tool_run" /\ inflight[j] = "hang") => HasTimeout(Body[ip[j]].tool)

\* C10: when a job has ended its checkout directory is gone, or the failure
\* to remove it has been logged.
C10_CheckoutRemovedOrFailureLogged ==
    \A j \in JobIds :
        pc[j] = "ended" => (RepoName(j) \notin checkouts \/ RepoName(j) \in cleanup_log)

\* C11: a request answered 403 is waited out and retried once: the lister
\* never waits a second time in a row on the same request, so a request that
\* keeps answering 403 cannot keep get_all_repos in its loop.
C11_RateLimitedRequestIsRetriedOnce == rate_waits <= 1

\* C12: the step that switches from the org endpoint to the user endpoint is
\* taken on page 1 only, with nothing accumulated from the org endpoint.
C12_FallbackOnlyOnFirstPage ==
    [][(tried_user_fallback' /\ ~tried_user_fallback)
          => (page = 1 /\ repos = <<>> /\ repos' = <<>>)]_vars

\* C13: when get_all_repos returns because the user endpoint answered 404 as
\* well, what it hands to its caller is not the empty list that a successful
\* listing of zero repositories returns.
C13_NotFoundDiffersFromEmptyListing ==
    (l_pc = "returned" /\ l_last.status = 404) => repos # <<>>

\* C14: a 401 or 422 response ends the listing at once: the request is not
\* repeated and no sleep is made for it.
C14_Other4xxSurfacedImmediately ==
    l_last.status \in {401, 422} => (l_pc # "request" /\ l_last.sleep = 0)

C16_RateLimitWait ==
    l_last.status = 403 =>
        /\ l_last.reset = NoHeader => l_last.sleep = 60
        /\ (l_last.reset # NoHeader /\ l_last.now < l_last.reset)
               => l_last.sleep = (l_last.reset - l_last.now) + 5
        /\ (l_last.reset # NoHeader /\ l_last.reset <= l_last.now)
               => l_last.sleep = 5
        /\ l_last.sleep >= 5

\* C16 witness: a 403 whose reset time was already past when it was handled.
C16_Witness ==
    l_last.status = 403 /\ l_last.reset # NoHeader /\ l_last.reset < l_last.now

\* the reorderings of a list
Reorderings(list) ==
    {[i \in 1..Len(list) |-> list[f[i]]] : f \in Permutations(1..Len(list))}

\* a list of findings with the spelling of the key fields set aside
Unspelled(list) ==
    [i \in 1..Len(list) |->
        <<Lower(list[i].type), Lower(list[i].name),
          Lower(list[i].affected_versions), Lower(list[i].severity),
          Lower(list[i].fixed_in), list[i].kev, list[i].epss>>]

\* C17: whatever the order in which a scanner reports its findings, the
\* Top 5 is the same: the result for every reordering of the Grype findings
\* is, up to the spelling of duplicates, the result returned.
C17_TopIsOrderIndependent ==
    agg_pc = "returned" =>
        \A g \in Reorderings(scan_results.grype) :
            Unspelled(get_top_vulnerabilities([scan_results EXCEPT !.grype = g]))
                = Unspelled(top_vulnerabilities)

\* the severity rank of the specification: critical < high < moderate|medium
\* < low < unknown as 0..4, a missing or unrecognised severity being unknown
SpecSeverityRank(sev) ==
    LET l == Lower(Or(sev, "unknown"))
    IN  CASE l = "critical" -> 0
          [] l = "high"     -> 1
          [] l \in {"moderate", "medium"} -> 2
          [] l = "low"      -> 3
          [] OTHER          -> 4

\* the ranking key of the specification
SpecKey(v) == <<IF v.kev THEN 0 ELSE 1, 0 - v.epss, SpecSeverityRank(v.severity)>>

\* the position of an entry in the deduplicated list
SourceIndex(v) == CHOOSE i \in 1..Len(unique_vulns) : unique_vulns[i] = v

\* C18: the returned list is in ascending order of the key (known-exploited
\* first, then higher exploit probability, then severity rank 0..4 with
\* missing and unrecognised severities as 4), entries of equal key in source
\* order.
C18_TopIsRankedBySpecKey ==
    agg_pc = "returned" =>
        \A i, j \in 1..Len(top_vulnerabilities) :
            i < j =>
                LET a == top_vulnerabilities[i]
                    b == top_vulnerabilities[j]
                IN  /\ ~RankLess(SpecKey(b), SpecKey(a))
                    /\ SpecKey(a) = SpecKey(b) => SourceIndex(a) < SourceIndex(b)

\* the fields of the key, compared without regard to case
SameFinding(a, b) ==
    /\ Lower(a.type) = Lower(b.type)
    /\ Lower(a.name) = Lower(b.name)
    /\ Lower(a.affected_versions) = Lower(b.affected_versions)
    /\ Lower(a.severity) = Lower(b.severity)
    /\ Lower(a.fixed_in) = Lower(b.fixed_in)

\* the positions in the collected list of the findings not seen before
FirstOccurrences ==
    {k \in 1..Len(vulnerabilities) :
        \A m \in 1..(k - 1) : ~SameFinding(vulnerabilities[m], vulnerabilities[k])}

\* the i-th of a set of positions, in ascending order
Nth(positions, i) ==
    CHOOSE k \in positions : Cardinality({m \in positions : m <= k}) = i

\* C19: deduplication keeps one finding per case-insensitive key: no two
\* entries of the deduplicated list (nor of the returned list) are the same
\* finding, each kept entry is the first of its key in the collected list,
\* kept in collection order, and every collected finding has its key kept.
C19_DedupKeepsFirstOfEachKey ==
    agg_pc = "returned" =>
        /\ \A i, j \in 1..Len(unique_vulns) :
              i # j => ~SameFinding(unique_vulns[i], unique_vulns[j])
        /\ \A i, j \in 1..Len(top_vulnerabilities) :
              i # j => ~SameFinding(top_vulnerabilities[i], top_vulnerabilities[j])
        /\ LET first == FirstOccurrences
           IN  /\ Len(unique_vulns) = Cardinality(first)
               /\ \A i \in 1..Len(unique_vulns) :
                     unique_vulns[i] = vulnerabilities[Nth(first, i)]
        /\ \A k \in 1..Len(vulnerabilities) :
              \E i \in 1..Len(unique_vulns) :
                  SameFinding(vulnerabilities[k], unique_vulns[i])

\* C19 witness: two collected findings that differ in spelling only were
\* collapsed to one.
C19_Witness ==
    /\ agg_pc = "returned"
    /\ Len(unique_vulns) < Len(vulnerabilities)
    /\ \E i, j \in 1..Len(vulnerabilities) :
          /\ i < j
          /\ vulnerabilities[i] # vulnerabilities[j]
          /\ vulnerabilities[i].name # vulnerabilities[j].name
          /\ SameFinding(vulnerabilities[i], vulnerabilities[j])

\* every finding of every source tool, none left out
CollectAll(sr) ==
    [i \in 1..Len(sr.safety) |-> FromSafety(sr.safety[i])]
    \o [i \in 1..Len(sr.npm_audit) |-> FromNpm(sr.npm_audit[i])]
    \o [i \in 1..Len(sr.trivy_fs) |-> FromTrivy(sr.trivy_fs[i])]
    \o [i \in 1..Len(sr.grype) |-> FromGrype(sr.grype[i])]

\* C20: the returned list has at most 5 entries and is the first 5 of the
\* ranked, deduplicated list of all findings of all source tools.
C20_TopFiveOfAllFindings ==
    agg_pc = "returned" =>
        /\ Len(top_vulnerabilities) <= 5
        /\ LET all == Dedup(CollectAll(scan_results))
           IN  top_vulnerabilities = Take(SortByRank(all, Len(all)), 5)

-----------------------------------------------------------------------------
(* Threat intelligence and the policy gate: the claims *)

\* C21: when the request of a feed made by load_kev or load_epss is not
\* answered with a success (an exception or a non-success status), the map
\* the loader returns is the content of the cache file if there is one, and
\* is empty when there is none.
C21_FailedFetchFallsBackToCache ==
    [][\A c \in Callers :
         /\ (g_pc[c] = "kev_fetch" /\ g_pc'[c] # "kev_fetch"
             /\ g_fetch'[c].kev # "ok")
            => g_kev'[c] = (IF kev_file.present THEN kev_file.val ELSE NoIds)
         /\ (g_pc[c] = "epss_fetch" /\ g_pc'[c] # "epss_fetch"
             /\ g_fetch'[c].epss # "ok")
            => g_epss'[c] = (IF epss_file.present THEN epss_file.val
                             ELSE NoScores)]_vars

\* the severity scale of the policy thresholds
ScaleRank(level) ==
    CASE level = "critical" -> 4
      [] level = "high"     -> 3
      [] level = "medium"   -> 2
      [] level = "low"      -> 1
      [] OTHER              -> 0

\* the findings a tool's output file holds and the level of each on the scale
OwnFindings(tool) ==
    IF tool_out[tool].shape \in {"object", "list"} THEN tool_out[tool].items
    ELSE <<>>
LevelOf(tool, f) ==
    IF tool = "semgrep" THEN map_sev(f.sev) ELSE Lower(f.sev)

\* a threshold of the gate of a tool is exceeded by the tool's own findings
SeverityReached(tool) ==
    LET S == Lower(policy.gates[tool].max_severity)
    IN /\ ScaleRank(S) > 0
       /\ \E i \in DOMAIN OwnFindings(tool) :
            ScaleRank(LevelOf(tool, OwnFindings(tool)[i])) >= ScaleRank(S)
CountExceeded(tool) ==
    LET mcounts == policy.gates[tool].max_counts
    IN \E k \in DOMAIN mcounts :
         Cardinality({i \in DOMAIN OwnFindings(tool) :
                        LevelOf(tool, OwnFindings(tool)[i]) = Lower(k)})
            > mcounts[k]

\* C22: whenever evaluate_policy returns under a policy document, every
\* tool named in the gates map whose max_severity or max_counts threshold
\* is exceeded by its own findings has a violation of its own in the list,
\* and passed is true exactly when the list is empty.
C22_EveryNamedToolIsGated ==
    \A n \in DOMAIN evals :
       (policy.present /\ ~evals[n].raised) =>
          /\ evals[n].passed <=> (evals[n].violations = <<>>)
          /\ \A tool \in GateNames :
               (SeverityReached(tool) \/ CountExceeded(tool)) =>
                  \E i \in DOMAIN evals[n].violations :
                     evals[n].violations[i].tool = tool

\* the tools whose block of evaluate_policy reads max_severity
SeverityTools == {"grype", "checkov", "semgrep", "bandit", "trivy_fs"}

\* a max_severity violation of the tool is in the list
NamesSeverityOf(e, tool) ==
    \E i \in DOMAIN e.violations :
       e.violations[i].tool = tool /\ e.violations[i].rule = "max_severity"

\* C23: under a gate with max_severity S for a tool, a call of
\* evaluate_policy returns passed = false with a max_severity violation
\* naming the tool when one of the tool's findings is at S or above, and
\* returns no max_severity violation of the tool when all are below S.
C23_MaxSeverityGate ==
    \A n \in DOMAIN evals : \A tool \in SeverityTools :
       (policy.present
        /\ ScaleRank(Lower(policy.gates[tool].max_severity)) > 0) =>
          IF SeverityReached(tool)
          THEN ~evals[n].raised /\ ~evals[n].passed
               /\ NamesSeverityOf(evals[n], tool)
          ELSE ~NamesSeverityOf(evals[n], tool)

\* C24: without a policy document a call of evaluate_policy returns, and
\* returns passed = false exactly when the Checkov output holds a failed
\* check of HIGH or CRITICAL severity, whatever the other tools reported.
C24_DefaultGateIsCheckovHigh ==
    \A n \in DOMAIN evals :
       ~policy.present =>
          /\ ~evals[n].raised
          /\ ~evals[n].passed <=>
                \E i \in DOMAIN OwnFindings("checkov") :
                   Upper(OwnFindings("checkov")[i].sev) \in {"CRITICAL", "HIGH"}

\* C25: no call of evaluate_policy ends with an exception, whatever the
\* output files hold: every call returns a (passed, violations) value.
C25_EvaluationNeverRaises ==
    \A n \in DOMAIN evals : ~evals[n].raised

C28_TwoEvaluationsAgree ==
    Len(evals) = CallsPerReport => evals[1] = evals[2]

-----------------------------------------------------------------------------
(* main: the exit code *)

\* C27: when the process has exited, a missing token means a non-zero exit
\* code and no job; a requested repository that could not be resolved, or
\* an account that neither the organisation nor the user endpoint knows,
\* means a non-zero exit code.
C27_ExitCodeTellsFailure ==
    main_pc = "exited" =>
       /\ ~cfg.GITHUB_TOKEN => (exit_code # 0 /\ jobs = <<>>)
       /\ (cfg.GITHUB_TOKEN /\ cfg.repo # "" /\ l_last.status \in {404, 0})
             => exit_code # 0
       /\ (cfg.GITHUB_TOKEN /\ cfg.repo = "" /\ l_last.status = 404
           /\ tried_user_fallback /\ page = 1)
             => exit_code # 0

-----------------------------------------------------------------------------
(* The worker pool and the pause loop *)

\* the jobs that have started and not yet finished
Started == {k \in JobIds : pc[k] \notin {"queued", "ended"}}

\* C29: the number of jobs that have started and not finished never
\* exceeds max(1, max_workers), and a queued job starts only while fewer
\* jobs than that are running.
C29_ActiveJobsWithinPoolSize ==
    [][/\ Cardinality(Started) <= Max(1, cfg.max_workers)
       /\ \A j \in JobIds :
            (pc[j] = "queued" /\ pc'[j] # "queued") =>
               Cardinality(Started) < Max(1, cfg.max_workers)]_vars

\* the pool of one worker is exhausted: a job is running, another is queued
C29_Witness ==
    /\ Max(1, cfg.max_workers) = 1
    /\ Cardinality(Started) = 1
    /\ \E j \in JobIds : pc[j] = "queued"
    /\ \E j \in Started : invoked[j] # <<>>

\* C30: a job that wakes from the sleep of the pause loop while stop.flag
\* exists stops there, whether pause.flag still exists or not: it records
\* "stopped", goes to its finally clause and calls no tool wrapper; and a
\* stopped job is never again anywhere but in its finally clause or ended.
C30_StopSeenAtEveryWake ==
    [][\A j \in JobIds :
         /\ (pc[j] = "ck_sleep" /\ pc'[j] # "ck_sleep" /\ stop_flag) =>
               /\ outcome'[j] = "Stopped"
               /\ pc'[j] = "finally"
               /\ scan_state'.status = "stopped"
               /\ invoked'[j] = invoked[j]
         /\ outcome[j] = "Stopped" =>
               /\ pc'[j] \in {"finally", "ended"}
               /\ invoked'[j] = invoked[j]]_vars

\* a job sleeps in the pause loop after at least one tool, stop.flag has
\* been created and pause.flag removed during the sleep
C30_Witness ==
    \E j \in JobIds :
       /\ pc[j] = "ck_sleep"
       /\ invoked[j] # <<>>
       /\ stop_flag
       /\ ~pause_flag

\* C31: a page request answered with a page of the listing ends get_all_repos
\* exactly when that page, as received and before the fork/archived filter,
\* is empty or has fewer than 100 entries; otherwise the next request is for
\* the following page, at the same page size.
C31_PaginationStopsAtFirstShortPage ==
    [][\A n \in ListingSizes :
          (get_all_repos(n) /\ l_last'.status = 200) =>
             IF Len(PageOf(n, page)) < 100
             THEN l_pc' = "returned" /\ page' = page
             ELSE l_pc' = "request" /\ page' = page + 1]_vars

\* C31 witness: the second page was full and the filter kept none of its
\* entries, and the third page was requested.
C31_Witness ==
    /\ page = 3
    /\ l_pc = "request"
    /\ ~cfg.include_forks
    /\ l_last.status = 200
    /\ Len(repos) < 100

\* C32: the list get_all_repos returns holds a fork only when include_forks
\* is set and an archived repository only when include_archived is set, and
\* its entries stand in upstream order with no repository twice.
C32_ReturnedListIsFilteredOnceInOrder ==
    l_pc = "returned" =>
       /\ \A i \in 1..Len(repos) :
             /\ repos[i].fork => cfg.include_forks
             /\ repos[i].archived => cfg.include_archived
       /\ \A i, k \in 1..Len(repos) : i < k => repos[i].name < repos[k].name

\* C34: when get_all_repos returns because a page request failed for good
\* (the attempts were used up, or the answer was a final 404), the caller
\* does not receive the pages fetched before the failure: the returned list
\* is non-empty only after a listing that ran to its last page.
C34_NoPartialListingReturned ==
    (l_pc = "returned" /\ l_last.status # 200) => repos = <<>>

\* C33: once some job has observed the stop (check_control wrote "stopped" and
\* raised), a job still queued in the pool stays queued or ends: it does not
\* go on to clone its repository or to run a tool.
C33_QueuedJobsDoNoWorkAfterStop ==
    [][(\E k \in JobIds : outcome[k] = "Stopped") =>
          \A j \in JobIds :
             pc[j] = "queued" => pc'[j] \in {"queued", "ended"}]_vars

\* C35: once scan_state.json holds status "stopped" no step writes "running"
\* or "done" over it, and the status is not "running" while a job is in the
\* pause loop of check_control.
C35_StoppedIsFinalAndPausedIsShown ==
    /\ [][scan_state.status = "stopped" =>
             scan_state'.status \notin {"running", "done"}]_vars
    /\ [](scan_state.status = "running" =>
             \A j \in JobIds : pc[j] # "ck_sleep")

\* C36: deduplication merges no two findings that differ in their
\* known-exploited flag or exploit probability (the values their CVE
\* identifiers carry): every collected finding is still there after
\* deduplication with its own flag and probability, i.e. only findings that
\* agree on these too were collapsed into one.
C36_DedupMergesOnlyFullyEqualFindings ==
    agg_pc = "returned" =>
       \A i \in 1..Len(vulnerabilities) :
          \E k \in 1..Len(unique_vulns) :
             /\ Key(unique_vulns[k]) = Key(vulnerabilities[i])
             /\ unique_vulns[k].kev = vulnerabilities[i].kev
             /\ unique_vulns[k].epss = vulnerabilities[i].epss

\* C37: a step of check_control leaves pause.flag and stop.flag as they are
\* (more generally any step that writes scan_state.json or moves a job does);
\* no step removes stop.flag, and a job that enters check_control while
\* stop.flag exists writes "stopped" and raises the stop. A hotkey changes
\* nothing but a flag: 'p' inverts the presence of pause.flag and leaves
\* stop.flag, 's' and 'q' leave stop.flag present and pause.flag as it was.
C37_ControlFrame ==
    [][/\ \A j \in JobIds :
             ((AtCheckpoint(j) \/ pc[j] \in {"ck_pause", "ck_sleep"})
                 /\ pc'[j] # pc[j]) =>
                UNCHANGED <<pause_flag, stop_flag>>
       /\ (scan_state' # scan_state \/ jobVars' # jobVars) =>
             UNCHANGED <<pause_flag, stop_flag>>
       /\ stop_flag => stop_flag'
       /\ \A j \in JobIds :
             (stop_flag /\ AtCheckpoint(j) /\ pc'[j] # pc[j]) =>
                /\ outcome'[j] = "Stopped"
                /\ scan_state'.status = "stopped"
       /\ (control_ops' # control_ops /\ HotkeyListener("p")) =>
             /\ pause_flag' = ~pause_flag
             /\ UNCHANGED <<stop_flag, scan_state, jobVars>>
       /\ (control_ops' # control_ops
             /\ (HotkeyListener("s") \/ HotkeyListener("q"))) =>
             /\ stop_flag'
             /\ UNCHANGED <<pause_flag, scan_state, jobVars>>]_vars

\* C37 witness: three control operations have left pause.flag absent and
\* stop.flag present, one job was stopped at a checkpoint and has ended, and
\* another job is on its way to its next checkpoint.
C37_Witness ==
    /\ control_ops >= 3
    /\ stop_flag
    /\ ~pause_flag
    /\ \E j, k \in JobIds :
          /\ pc[j] = "ended"
          /\ outcome[j] = "Stopped"
          /\ pc[k] \in {"body", "tool_run"}
          /\ invoked[k] # <<>>

\* job j has gone past its checkpoint and taken the statement that followed
RanPending(j) ==
    \/ pc[j] \in {"tool_run", "write_done", "finally", "ended"}
    \/ pc[j] = "body" /\ ~ck_ok[j]

\* C38: in a run where pause.flag is in the end absent for good and stop.flag
\* never exists, a job sleeping in the pause loop eventually is past the
\* checkpoint and has taken the statement that follows it; and a step by
\* which check_control returns is taken with pause.flag absent and writes
\* status "running" for the job's repository.
C38_PausedJobResumes ==
    /\ \A j \in {1, 2} :
          (<>[](~pause_flag) /\ [](~stop_flag)) =>
             (pc[j] = "ck_sleep" ~> RanPending(j))
    /\ [][\A j \in JobIds :
             (pc[j] \in {"ck_pause", "ck_sleep"} /\ pc'[j] = "body") =>
                /\ ~pause_flag
                /\ pc[j] = "ck_pause"
                /\ ck_ok'[j]
                /\ scan_state' = [status |-> "running",
                                  last_repo |-> RepoName(j)]]_vars

\* C38 witness: a job that wrote "paused" and slept has woken with stop.flag
\* absent and stands at the while test with pause.flag removed, about to
\* return; it has run tools before.
C38_Witness ==
    /\ ~pause_flag
    /\ ~stop_flag
    /\ \E j \in JobIds :
          /\ pc[j] = "ck_pause"
          /\ scan_state = [status |-> "paused", last_repo |-> RepoName(j)]
          /\ invoked[j] # <<>>

\* C39: a repository whose future main has collected is listed under
\* "Repositories with Secrets Found" exactly when its Gitleaks run exited
\* with code 1; a failed clone, a missing Gitleaks binary and a scan that
\* errored never put it in the list.
C39_ListedIffGitleaksExitedOne ==
    \A w \in LeakRepos :
       s_pc[w] = "collected" =>
          (w \in secret_repos <=> s_result[w] \in {"rc1", "rc1_badjson"})

\* C40: at most one temporary clone root is made in a run, whatever the
\* interleaving of the workers in clone_repo, and when main has finished no
\* temporary clone root made in the run is left.
C40_OneCloneRootAndRemoved ==
    /\ Cardinality(tmp_roots) <= 1
    /\ s_main = "done" => tmp_roots = {}

====
